---- MODULE Spec2Model ----
(***************************************************************************)
(* The reset engine of Cursor_Windsurf_Reset (package cleaner): one        *)
(* CleanApplication call on an Engine, its phases (cleanOldBackups,        *)
(* modifyTelemetry, cleanDatabases, cleanCache), the backup root written   *)
(* by CreateBackup, and the bounded progress channel filled by             *)
(* sendProgress and drained by a consumer.                                 *)
(***************************************************************************)
EXTENDS Integers, Sequences, FiniteSets, TLC

(* ------------------------------ bounds --------------------------------- *)
\* files found under the application root by one walk
MaxFiles == 2
\* configured cache directory kinds (config.CleaningOptions.CacheDirectories)
MaxKinds == 3
\* directories under the application root that match a cache kind
MaxDirs == 3
\* seconds the wall clock may advance during one call
MaxClock == 1
\* I/O failures (copy, open, remove, stat) during one call
MaxFaults == 1
\* failures of file operations during the calls on one JSON file
JsonFaults == 2
\* updates a consumer reads during one call
MaxRecv == 1
\* free slots left in the channel by the updates of earlier calls
BacklogGap == 3

(* ------------------------- program constants --------------------------- *)
\* make(chan ProgressUpdate, 100)
ChanCap == 100
\* BackupOptions.RetentionDays of the default configuration
DefaultRetentionDays == 30

\* config.Applications of the engine under study
Apps == {"cursor"}
\* an application name that is no key of config.Applications
UnknownApp == "other"
\* the directory an application profile resolves to
AppPath == "/home/u/.config/Cursor"

\* config.CleaningOptions.DatabaseFiles (default configuration)
DatabaseFiles == {"state.vscdb", "storage.json", "preferences.json", "settings.json"}
\* dbExtensions of findDatabaseFiles, and the database case of modifyTelemetry
dbExtensions == {".vscdb", ".db", ".sqlite", ".sqlite3"}
\* base names of the files that may exist under the application root
FileNames == {"state.vscdb", "storage.json", "data.db"}

\* filepath.Ext of the base names above
Ext(base) ==
    CASE base = "state.vscdb"      -> ".vscdb"
      [] base = "data.db"          -> ".db"
      [] base = "storage.json"     -> ".json"
      [] base = "preferences.json" -> ".json"
      [] base = "settings.json"    -> ".json"
      [] OTHER                     -> ""

VARIABLES
    aspect,        \* which part of the environment this run varies (see Init)
    config,        \* e.config: the options CleanApplication reads
    dryRun,        \* e.dryRun
    appDataPaths,  \* e.appDataPaths
    backups,       \* entries of e.backupBaseDir: name -> content
    backlog,       \* updates of earlier calls still queued ahead in e.progressChan
    progressChan,  \* updates of this call queued in e.progressChan
    appName,       \* argument of the CleanApplication call
    pc,            \* position of the call
    ret,           \* "none" while running, then "nil" or "err"
    files,         \* files under appPath, in filepath.Walk order
    dirs,          \* cache directories under appPath, in filepath.Walk order
    foundFiles,    \* foundFiles of modifyTelemetry / dbFiles of cleanDatabases
    fileIndex,     \* loop index over foundFiles / dbFiles
    allFoundDirs,  \* len(allFoundDirs) of cleanCache
    stats,         \* stats of cleanCache: per cache kind, the CacheStats
    dirPaths,      \* the path of a matched directory, where the run depends on it
    foundDirs,     \* foundDirs of the clearing loop of cleanCache, as indices
    inside,        \* pairs <<inner, outer>>: a cache directory inside another
    dirIndex,      \* loop index over cacheDirs
    i,             \* loop index over foundDirs
    now,           \* time.Now(), seconds
    faults,        \* I/O failures injected so far
    running,       \* a process of the application is running
    phases,        \* history: phases invoked, in order
    ops,           \* history: CreateBackup calls and mutating operations, in order
    created,       \* history: successful CreateBackup calls
    emitted,       \* history: updates handed to sendProgress by this call
    received,      \* history: updates of this call read by the consumer
    recvCount,     \* history: number of reads of the consumer
    selectedApps,  \* GUI: selectedApps of onClean, in list order
    nextApp,       \* GUI: performCleanup calls made by the loop of onClean
    appEngine,     \* GUI: app.engine, as the number of the call that set it
    cleaners,      \* GUI: the CleanApplication goroutine of each performCleanup
    monitors,      \* GUI: the monitorProgress goroutine of each performCleanup
    chans,         \* GUI: the progress channel of each engine, by engine number
    hooks,         \* GUI: showProjectInfoAfterCompletion goroutines started
    call,          \* a single method called on its own: arguments and results
    doc,           \* the JSON file that method works on, parsed
    db,            \* the SQLite file that method works on: its tables
    fsys,          \* the directory that method clears, and what its links point to
    host,          \* what discovery reads: environment, home, OS, profiles, disk
    sidecars       \* the files <jsonPath>.bak and <jsonPath>.tmp next to doc

engineVars == <<aspect, config, dryRun, appDataPaths, inside, dirPaths, stats, backups, backlog, progressChan, appName,
          pc, ret, files, dirs, foundFiles, fileIndex, allFoundDirs, foundDirs, dirIndex, i,
          now, faults, running, phases, ops, created, emitted, received, recvCount>>

\* the goroutines started from the window (gui.App)
guiVars == <<selectedApps, nextApp, appEngine, cleaners, monitors, chans, hooks>>

\* a method of the engine called outside CleanApplication
unitVars == <<call, doc, db, fsys, host, sidecars>>

\* the parts modelled next to the CleanApplication call
others == <<guiVars, unitVars>>

vars == <<engineVars, others>>

callVars == <<foundFiles, fileIndex, allFoundDirs, stats, foundDirs, dirIndex, i>>

\* what the engine is constructed with
fixed == <<aspect, config, dryRun, appDataPaths, inside, dirPaths>>

(* ------------------------------ helpers -------------------------------- *)
\* a percentage n/d as an exact rational
Pct(n, d) == <<n, d>>
PctLeq(a, b) == a[1] * b[2] <= b[1] * a[2]
PctEq(a, b) == a[1] * b[2] = b[1] * a[2]
Hundred == Pct(100, 1)

\* ProgressUpdate: Type, Progress and AppName (seq is the emission number)
Update(type, progress) ==
    [seq |-> Len(emitted) + 1, type |-> type, progress |-> progress, app |-> appName]

\* number of updates buffered in e.progressChan
ChanLen == backlog + Len(progressChan)

\* a send that makes room by evicting the oldest buffered update
sendProgressEvict(update) ==
    /\ emitted' = Append(emitted, update)
    /\ IF ChanLen < ChanCap
         THEN /\ progressChan' = Append(progressChan, update)
              /\ UNCHANGED backlog
         ELSE IF backlog > 0
           THEN /\ backlog' = backlog - 1
                /\ progressChan' = Append(progressChan, update)
           ELSE /\ progressChan' = Append(Tail(progressChan), update)
                /\ UNCHANGED backlog

\* a plain channel send: it waits until the channel has room
sendProgressBlocking(update) ==
    /\ ChanLen < ChanCap
    /\ emitted' = Append(emitted, update)
    /\ progressChan' = Append(progressChan, update)
    /\ UNCHANGED backlog

\* Engine.sendProgress: non-blocking enqueue, the update is dropped when full
sendProgress(update) ==
    /\ emitted' = Append(emitted, update)
    /\ progressChan' = IF ChanLen < ChanCap
                         THEN Append(progressChan, update)
                         ELSE progressChan
    /\ UNCHANGED backlog


\* kinds are named as the first entries of the default CacheDirectories
CacheDirNames == <<"IndexedDB", "Local Storage", "Cache", "Code Cache", "GPUCache",
                   "blob_storage", "logs">>

RECURSIVE SumLens(_, _)
SumLens(f, k) == IF k = 0 THEN 0 ELSE Len(f[k]) + SumLens(f, k - 1)

RECURSIVE Sum(_, _)
Sum(f, S) ==
    IF S = {} THEN 0
    ELSE LET x == CHOOSE y \in S : TRUE IN f[x] + Sum(f, S \ {x})

\* the cache directories a walk may find: per kind, the matched directories
DirTrees(K) ==
    { t \in [1..K -> UNION { [1..n -> {"full"}] : n \in 0..MaxDirs }] :
        SumLens(t, K) <= MaxDirs }

\* the files a walk may find, in walk order
FileTrees ==
    UNION { [1..n -> [base : FileNames, ids : {"old"}, rows : {"kept"}]] :
              n \in 0..MaxFiles }

\* a source path handed to CreateBackup or to a mutating operation
FileSrc(idx) == [t |-> "file", a |-> idx, b |-> 0]
DirSrc(k, j) == [t |-> "dir", a |-> k, b |-> j]

\* entries found in the backup root when the engine is constructed
OldEntry == <<"cursor", "cache", "Cache", -2, "">>
RecentEntry == <<"cursor", "cache", "Cache", -1, "">>
InitialBackups ==
    (OldEntry :> [srcs |-> {DirSrc(0, 1)}, old |-> TRUE]) @@
    (RecentEntry :> [srcs |-> {DirSrc(0, 2)}, old |-> FALSE])

(* ---------------------------- file search ------------------------------ *)
\* indices of the elements of 1..n that satisfy Test, in order
RECURSIVE Filter(_, _, _)
Filter(n, Test(_), k) ==
    IF k > n THEN <<>>
    ELSE (IF Test(k) THEN <<k>> ELSE <<>>) \o Filter(n, Test, k + 1)

\* Engine.findFilesRecursiveAdvanced: files whose base name is a target name
findFilesRecursiveAdvanced(fs, filenames) ==
    LET Match(k) == fs[k].base \in filenames
    IN Filter(Len(fs), Match, 1)

\* Engine.findDatabaseFiles: files with a database extension
findDatabaseFiles(fs) ==
    LET Match(k) == Ext(fs[k].base) \in dbExtensions
    IN Filter(Len(fs), Match, 1)

\* Engine.findDirectoriesRecursive for one cache kind: the matches that
\* exist, in walk order
findDirectoriesRecursive(ds, k) ==
    LET Exists(j) == ds[k][j] # "gone"
    IN Filter(Len(ds[k]), Exists, 1)

\* strings.Split(dirName, "/")
Parts(dirName) == IF dirName = "User/logs" THEN <<"User", "logs">> ELSE <<dirName>>

\* strings.Contains(segment, part), for the segments of the paths below
Contains(segment, part) == segment = part \/ <<segment, part>> = <<"Users", "User">>

\* the test of findDirectoriesRecursive on a directory at path (a sequence
\* of segments below the volume) for one configured name
MatchesName(dirName, path) ==
    LET parts == Parts(dirName)
        baseName == path[Len(path)]
        parentName == path[Len(path) - 1]
    IN IF Len(parts) > 1
         THEN /\ baseName = parts[Len(parts)]
              /\ \/ parentName = parts[1]
                 \/ \E n \in DOMAIN path : Contains(path[n], parts[1])
         ELSE baseName = dirName

\* a pair of configured names of the default list with the same last part
AliasNames == <<"logs", "User/logs">>

\* where the one "logs" directory of a profile may lie
AliasPaths ==
    {<<"home", "u", "Cursor", "logs">>, <<"home", "u", "Cursor", "User", "logs">>,
     <<"Users", "u", "Cursor", "logs">>}

\* the cache kinds of the run
CacheDirs == IF aspect = "alias" THEN AliasNames ELSE CacheDirNames

\* two matches that are one directory
Same(x, y) ==
    x = y \/ (x \in DOMAIN dirPaths /\ y \in DOMAIN dirPaths /\ dirPaths[x] = dirPaths[y])

(* ------------------------------ backups -------------------------------- *)
BackupOutcomes == {"ok", "nocopy", "partial"}

\* a CreateBackup that creates its destination before it looks at the source
CreateBackupCreateFirst(bk, src, isDir, label, base, t, o) ==
    IF ~config.backupEnabled THEN bk
    ELSE LET name == <<appName, label, base, t,
                       IF config.compression THEN ".zip" ELSE "">>
         IN IF o = "ok"
              THEN (name :> [srcs |-> {src}, old |-> FALSE]) @@ bk
              ELSE (name :> [srcs |-> {}, old |-> FALSE]) @@ bk

\* Engine.CreateBackup: the backup root after the call.  t is time.Now(),
\* o the outcome: "missing" when os.Stat reports that the source does not
\* exist, otherwise the outcome of the copy: "nocopy" fails before the
\* destination is created, "partial" after it was created or truncated.
CreateBackup(bk, src, isDir, label, base, t, o) ==
    IF ~config.backupEnabled THEN bk
    ELSE LET name == <<appName, label, base, t,
                       IF config.compression THEN ".zip" ELSE "">>
             prev == IF name \in DOMAIN bk THEN bk[name].srcs ELSE {}
             merges == isDir /\ ~config.compression
         IN CASE o = "missing" -> bk
              [] o = "nocopy"  -> bk
              [] o = "partial" ->
                   (name :> [srcs |-> IF merges THEN prev ELSE {}, old |-> FALSE]) @@ bk
              [] OTHER ->
                   (name :> [srcs |-> IF merges THEN prev \cup {src} ELSE {src},
                             old |-> FALSE]) @@ bk

\* the path a successful CreateBackup returns
BackupPath(label, base, t) ==
    <<appName, label, base, t, IF config.compression THEN ".zip" ELSE "">>

\* what CreateBackup returns: the path, empty unless the copy was made, and
\* the error
CreateBackupReturn(label, base, t, o) ==
    CASE ~config.backupEnabled -> [path |-> <<>>, err |-> "nil"]
      [] o = "missing" -> [path |-> <<>>, err |-> "source path does not exist"]
      [] o = "ok"      -> [path |-> BackupPath(label, base, t), err |-> "nil"]
      [] OTHER         -> [path |-> <<>>, err |-> "copy failed"]

\* Engine.cleanOldBackups: entries older than the retention window are
\* removed; keep is the set of entries whose removal failed
cleanOldBackups(bk, keep) ==
    IF config.retentionDays <= 0 THEN bk
    ELSE [n \in {m \in DOMAIN bk : ~bk[m].old \/ m \in keep} |-> bk[n]]

(* ------------------------------ scenarios ------------------------------ *)
\* A run varies one part of the environment of the call and keeps the others
\* at the baseline below: the options and arguments ("config"), the files
\* under the application root ("files"), the cache kinds and directories
\* ("cache"), which cache directory lies inside which ("nested"), the wall
\* clock ("clock"), or the occupancy of the channel and its consumer
\* ("channel").  I/O operations may fail in the runs over the baseline cache
\* tree that have no consumer.
Aspects == {"config", "files", "cache", "nested", "alias", "clock", "channel"}

File(base) == [base |-> base, ids |-> "old", rows |-> "kept"]

\* baseline profile: globalStorage/storage.json, globalStorage/state.vscdb and
\* workspaceStorage/<id>/state.vscdb; one "IndexedDB" directory, no
\* "Local Storage" directory
BaselineFiles == <<File("storage.json"), File("state.vscdb"), File("state.vscdb")>>
BaselineDirs == <<<<"full">>, <<>>>>

\* a profile with two "IndexedDB" directories and one "Local Storage"
\* directory, of which at most one lies inside another: a directory of the
\* same kind lies inside one that the walk visits earlier
NestedDirs == <<<<"full", "full">>, <<"full">>>>
Nestings ==
    {{}} \cup { {<<DirSrc(1, 2), DirSrc(1, 1)>>}, {<<DirSrc(2, 1), DirSrc(1, 1)>>},
                {<<DirSrc(1, 1), DirSrc(2, 1)>>}, {<<DirSrc(1, 2), DirSrc(2, 1)>>} }

\* config.GetDefaultConfig, with the cache kinds of the baseline profile
DefaultConfig ==
    [backupEnabled |-> TRUE, compression |-> FALSE,
     retentionDays |-> DefaultRetentionDays, checkRunning |-> TRUE,
     cacheDirectories |-> Len(BaselineDirs)]

\* the options CleanApplication reads, over the baseline cache kinds
Configs ==
    { c \in [backupEnabled : BOOLEAN, compression : BOOLEAN,
             retentionDays : {0, DefaultRetentionDays},
             checkRunning : BOOLEAN,
             cacheDirectories : {Len(BaselineDirs)}] :
        c.compression => c.backupEnabled }

\* the I/O failures (copy, open, remove, stat) a run may meet
FaultBudget ==
    IF aspect \in {"cache", "nested", "alias", "channel"} THEN 0
    ELSE IF aspect = "json" THEN JsonFaults ELSE MaxFaults

\* the seconds the clock may advance during the call
ClockLimit == IF aspect = "clock" THEN MaxClock ELSE 0

\* no method is called on its own
NoCall == [fn |-> "none"]
NoDoc == [t |-> "absent"]
EmptyDb == [n \in {} |-> 0]
NoEntries == [n \in {} |-> 0]
Intact == [x \in {"outFile", "outDir"} |-> "intact"]
NoDir == [entries |-> NoEntries, outside |-> Intact]
NoHost == [os |-> "linux"]
NoSidecars == [bak |-> NoDoc, tmp |-> NoDoc]
UnitAtRest ==
    /\ call = NoCall /\ doc = NoDoc /\ db = EmptyDb /\ fsys = NoDir
    /\ host = NoHost /\ sidecars = NoSidecars

\* no window: the engine is driven from the command line
GuiAtRest ==
    /\ selectedApps = <<>>
    /\ nextApp = 0
    /\ appEngine = 0
    /\ cleaners = <<>>
    /\ monitors = <<>>
    /\ chans = <<>>
    /\ hooks = <<>>

(* -------------------------------- Init --------------------------------- *)
\* NewEngine and the profile on disk; the channel may still hold the updates
\* of earlier calls on the same engine (runCLI never reads it)
Init ==
    /\ aspect \in Aspects
    /\ config \in IF aspect = "config" THEN Configs
                  ELSE IF aspect = "cache"
                    THEN { [DefaultConfig EXCEPT !.cacheDirectories = K] :
                             K \in 0..MaxKinds }
                    ELSE {DefaultConfig}
    /\ dryRun \in IF aspect = "config" THEN BOOLEAN ELSE {FALSE}
    /\ appDataPaths \in IF aspect = "config" THEN [Apps -> {"", AppPath}]
                        ELSE {[a \in Apps |-> AppPath]}
    /\ inside \in IF aspect = "nested" THEN Nestings ELSE {{}}
    /\ backups = InitialBackups
    /\ backlog \in IF aspect = "channel" THEN {0, ChanCap - BacklogGap} ELSE {0}
    /\ progressChan = <<>>
    /\ appName = ""
    /\ pc = "idle"
    /\ ret = "none"
    /\ files \in IF aspect = "files" THEN FileTrees ELSE {BaselineFiles}
    /\ dirPaths \in IF aspect = "alias"
                     THEN { [src \in { DirSrc(k, 1) : k \in { n \in DOMAIN AliasNames :
                                          MatchesName(AliasNames[n], path) } } |-> path] :
                            path \in AliasPaths }
                     ELSE {<<>>}
    /\ dirs \in IF aspect = "cache" THEN DirTrees(config.cacheDirectories)
                ELSE IF aspect = "nested" THEN {NestedDirs}
                ELSE IF aspect = "alias"
                  THEN {[k \in DOMAIN AliasNames |->
                           IF DirSrc(k, 1) \in DOMAIN dirPaths THEN <<"full">> ELSE <<>>]}
                ELSE {BaselineDirs}
    /\ foundFiles = <<>>
    /\ fileIndex = 0
    /\ allFoundDirs = 0
    /\ stats = <<>>
    /\ foundDirs = <<>>
    /\ dirIndex = 0
    /\ i = 0
    /\ now = 0
    /\ faults = 0
    /\ running \in IF aspect = "config" THEN BOOLEAN ELSE {FALSE}
    /\ phases = <<>>
    /\ ops = <<>>
    /\ created = <<>>
    /\ emitted = <<>>
    /\ received = <<>>
    /\ recvCount = 0
    /\ GuiAtRest
    /\ UnitAtRest


(* ------------------------ inputs of one iteration ----------------------- *)
Min(a, b) == IF a < b THEN a ELSE b

\* what one CreateBackup call reads: the clock, and whether the copy works
BackupInputs ==
    IF ~config.backupEnabled THEN {[t |-> now, o |-> "ok"]}
    ELSE [t : now..Min(now + 1, ClockLimit),
          o : IF faults < FaultBudget THEN BackupOutcomes ELSE {"ok"}]

Cost(failed) == IF failed THEN 1 ELSE 0

\* the successful CreateBackup calls, with the path each returned
Created(src, label, base, b) ==
    IF config.backupEnabled /\ b.o = "ok"
      THEN Append(created, [src |-> src, path |-> BackupPath(label, base, b.t)])
      ELSE created

\* a loop body that applies the mutating operation before it calls CreateBackup
ItemOpsMutateFirst(phase, src, passes) ==
    [n \in 1..passes |-> [op |-> "mutate", phase |-> phase, src |-> src]] \o
    <<[op |-> "backup", phase |-> phase, src |-> src]>>

\* the trace of one loop body: CreateBackup first, then the passes of the
\* mutating operation
ItemOps(phase, src, passes) ==
    <<[op |-> "backup", phase |-> phase, src |-> src]>> \o
    [n \in 1..passes |-> [op |-> "mutate", phase |-> phase, src |-> src]]

\* a loop body that skips the item when its backup has failed
ProceedsOnlyAfterBackup(o) == o = "ok"

\* whether a loop body goes on to the mutating call after a CreateBackup
\* with outcome o: the error is logged and nothing else
Proceeds(o) == TRUE

\* failedFiles++ (file phases), or a directory not counted in CleanedDirs
failedFiles(phase, src, failed) ==
    IF failed THEN <<[op |-> "failed", phase |-> phase, src |-> src]>> ELSE <<>>

\* a loop that is left when the body has met a failure
NextItemUnlessFailed(index, total, failed) == IF failed THEN total ELSE index + 1

\* the step of "for i, file := range files": a body that has met a failure
\* ends in continue
NextItem(index, total, failed) == index + 1

(* --------------------------- CleanApplication --------------------------- *)
\* an entry that prunes the backup root before the preconditions are checked
CleanApplicationPruneFirst ==
    /\ pc = "idle"
    /\ \E a \in (IF aspect = "config" THEN Apps \cup {UnknownApp} ELSE Apps) :
         appName' = a
    /\ sendProgress([seq |-> Len(emitted) + 1, type |-> "start",
                     progress |-> Pct(0, 1), app |-> appName'])
    /\ backups' = cleanOldBackups(backups, {})
    /\ pc' = "validate"
    /\ UNCHANGED <<others, fixed, ret, files, dirs, callVars,
                   now, faults, running, phases, ops, created, received, recvCount>>

\* entry of CleanApplication: the "start" update
CleanApplication ==
    /\ pc = "idle"
    /\ \E a \in (IF aspect = "config" THEN Apps \cup {UnknownApp} ELSE Apps) :
         appName' = a
    /\ sendProgress([seq |-> Len(emitted) + 1, type |-> "start",
                     progress |-> Pct(0, 1), app |-> appName'])
    /\ pc' = "validate"
    /\ UNCHANGED <<others, fixed, backups, ret, files, dirs, callVars,
                   now, faults, running, phases, ops, created, received, recvCount>>

\* the process probe that always answers "not running"
IsAppRunningNever(a) == FALSE

\* Engine.IsAppRunning: false for a name that is no configured application,
\* else whether one of its processes is found
IsAppRunning(a) == a \in Apps /\ running

\* the precondition checks of CleanApplication
Validate ==
    /\ pc = "validate"
    /\ LET exists == appName \in DOMAIN appDataPaths
           appPath == IF exists THEN appDataPaths[appName] ELSE ""
       IN IF ~exists \/ appPath = ""
            THEN /\ ret' = "err"
                 /\ pc' = "done"
            ELSE IF config.checkRunning /\ IsAppRunning(appName)
                   THEN /\ ret' = "err"
                        /\ pc' = "done"
                   ELSE /\ pc' = "prune"
                        /\ UNCHANGED ret
    /\ UNCHANGED <<others, fixed, backups, backlog, progressChan, appName, files, dirs,
                   callVars, now, faults, running, phases, ops, created, emitted,
                   received, recvCount>>

\* e.cleanOldBackups() and the first "discover" update
Prune ==
    /\ pc = "prune"
    /\ \E keep \in SUBSET {n \in DOMAIN backups : backups[n].old} :
         /\ faults + Cardinality(keep) <= FaultBudget
         /\ (config.retentionDays <= 0) => (keep = {})
         /\ backups' = cleanOldBackups(backups, keep)
         /\ faults' = faults + Cardinality(keep)
    /\ phases' = Append(phases, "cleanOldBackups")
    /\ sendProgress(Update("discover", Pct(10, 1)))
    /\ pc' = "discover"
    /\ UNCHANGED <<others, fixed, appName, ret, files, dirs, callVars,
                   now, running, ops, created, received, recvCount>>

\* e.DiscoverCacheInfo (read only) and the second "discover" update
Discover ==
    /\ pc = "discover"
    /\ sendProgress(Update("discover", Pct(15, 1)))
    /\ pc' = "phase_telemetry"
    /\ UNCHANGED <<others, fixed, backups, appName, ret, files, dirs,
                   callVars, now, faults, running, phases, ops, created, received,
                   recvCount>>

\* the "phase" update that precedes a phase
Phase(at, progress, next) ==
    /\ pc = at
    /\ sendProgress(Update("phase", progress))
    /\ pc' = next
    /\ UNCHANGED <<others, fixed, backups, appName, ret, files, dirs,
                   callVars, now, faults, running, phases, ops, created, received,
                   recvCount>>

PhaseTelemetry == Phase("phase_telemetry", Pct(20, 1), "mt_begin")
\* a phase update after which cleanDatabases is not called
PhaseDatabaseSkipped == Phase("phase_database", Pct(50, 1), "phase_cache")
PhaseDatabase == Phase("phase_database", Pct(50, 1), "cd_begin")
PhaseCache == Phase("phase_cache", Pct(80, 1), "cc_begin")

\* the "complete" update and the return of CleanApplication
Complete ==
    /\ pc = "complete"
    /\ phases' = Append(phases, "complete")
    /\ sendProgress(Update("complete", Hundred))
    /\ ret' = "nil"
    /\ pc' = "done"
    /\ UNCHANGED <<others, fixed, backups, appName, files, dirs,
                   callVars, now, faults, running, ops, created, received, recvCount>>


(* ---------------------------- modifyTelemetry --------------------------- *)
\* the file walk of modifyTelemetry, with its fallback, and the first update
modifyTelemetry ==
    /\ pc = "mt_begin"
    /\ foundFiles' =
         LET found == findFilesRecursiveAdvanced(files, DatabaseFiles)
         IN IF Len(found) = 0 THEN findDatabaseFiles(files) ELSE found
    /\ phases' = Append(phases, "modifyTelemetry")
    /\ sendProgress(Update("telemetry", Pct(20, 1)))
    /\ fileIndex' = 0
    /\ pc' = "mt_loop"
    /\ UNCHANGED <<others, fixed, backups, appName, ret, files, dirs,
                   allFoundDirs, stats, foundDirs, dirIndex, i, now, faults, running, ops, created,
                   received, recvCount>>

\* the dispatch by extension in modifyTelemetry
TelemetryHandler(base) ==
    IF Ext(base) \in dbExtensions THEN "processSQLiteFile"
    ELSE IF Ext(base) = ".json" THEN "processJSONFile"
    ELSE "skip"

\* one iteration of the file loop of modifyTelemetry
mtFile ==
    /\ pc = "mt_loop"
    /\ fileIndex < Len(foundFiles)
    /\ LET idx == foundFiles[fileIndex + 1]
           base == files[idx].base
           total == Len(foundFiles)
           handled == TelemetryHandler(base) # "skip"
       IN /\ sendProgress(Update("telemetry",
                                 Pct(22 * (total + 1) + 18 * fileIndex, total + 1)))
          /\ \E gone \in BOOLEAN, b \in BackupInputs, ok \in BOOLEAN :
               LET cost == IF gone THEN 1
                           ELSE Cost(b.o # "ok") + Cost(handled /\ ~ok)
               IN /\ faults + cost <= FaultBudget
                  /\ faults' = faults + cost
                  /\ IF gone
                       THEN \* os.Stat reports the file missing: skipped
                            /\ b = CHOOSE x \in BackupInputs : TRUE
                            /\ ok
                            /\ ops' = ops \o failedFiles("telemetry", FileSrc(idx), TRUE)
                            /\ UNCHANGED <<backups, now, created, files>>
                       ELSE /\ backups' = CreateBackup(backups, FileSrc(idx), FALSE,
                                                       "telemetry", base, b.t, b.o)
                            /\ now' = b.t
                            /\ created' = Created(FileSrc(idx), "telemetry", base, b)
                            /\ ops' = ops \o ItemOps("telemetry", FileSrc(idx),
                                           IF handled /\ Proceeds(b.o) THEN 1 ELSE 0)
                                         \o failedFiles("telemetry", FileSrc(idx),
                                                        handled /\ ~ok)
                            /\ (~handled) => ok
                            /\ files' = IF handled /\ ok /\ Proceeds(b.o)
                                          THEN [files EXCEPT ![idx].ids = "new"]
                                          ELSE files
    /\ fileIndex' = NextItem(fileIndex, Len(foundFiles), faults' > faults)
    /\ UNCHANGED <<others, fixed, appName, pc, ret, dirs, foundFiles,
                   allFoundDirs, stats, foundDirs, dirIndex, i, running, phases, received, recvCount>>

\* the closing update of modifyTelemetry
mtEnd ==
    /\ pc = "mt_loop"
    /\ fileIndex = Len(foundFiles)
    /\ sendProgress(Update("telemetry", Pct(45, 1)))
    /\ pc' = "phase_database"
    /\ UNCHANGED <<others, fixed, backups, appName, ret, files, dirs,
                   callVars, now, faults, running, phases, ops, created, received,
                   recvCount>>

(* ----------------------------- cleanDatabases --------------------------- *)
\* the file walk of cleanDatabases and its first update
cleanDatabases ==
    /\ pc = "cd_begin"
    /\ foundFiles' = findDatabaseFiles(files)
    /\ phases' = Append(phases, "cleanDatabases")
    /\ fileIndex' = 0
    /\ IF Len(foundFiles') = 0
         THEN /\ sendProgress(Update("database", Pct(65, 1)))
              /\ pc' = "phase_cache"
         ELSE /\ sendProgress(Update("database", Pct(50, 1)))
              /\ pc' = "cd_loop"
    /\ UNCHANGED <<others, fixed, backups, appName, ret, files, dirs,
                   allFoundDirs, stats, foundDirs, dirIndex, i, now, faults, running, ops, created,
                   received, recvCount>>

\* one iteration of the file loop of cleanDatabases
cdFile ==
    /\ pc = "cd_loop"
    /\ fileIndex < Len(foundFiles)
    /\ LET idx == foundFiles[fileIndex + 1]
           base == files[idx].base
           total == Len(foundFiles)
       IN /\ sendProgress(Update("database",
                                 Pct(50 * (total + 1) + 15 * fileIndex, total + 1)))
          /\ \E b \in BackupInputs, ok \in BOOLEAN :
               LET cost == Cost(b.o # "ok") + Cost(~ok)
               IN /\ faults + cost <= FaultBudget
                  /\ faults' = faults + cost
                  /\ backups' = CreateBackup(backups, FileSrc(idx), FALSE,
                                             "database", base, b.t, b.o)
                  /\ now' = b.t
                  /\ created' = Created(FileSrc(idx), "database", base, b)
                  /\ ops' = ops \o ItemOps("database", FileSrc(idx),
                                           IF Proceeds(b.o) THEN 1 ELSE 0)
                               \o failedFiles("database", FileSrc(idx), ~ok)
                  /\ files' = IF ok /\ Proceeds(b.o)
                                THEN [files EXCEPT ![idx].rows = "cleaned"]
                                ELSE files
    /\ fileIndex' = NextItem(fileIndex, Len(foundFiles), faults' > faults)
    /\ UNCHANGED <<others, fixed, appName, pc, ret, dirs, foundFiles,
                   allFoundDirs, stats, foundDirs, dirIndex, i, running, phases, received, recvCount>>

\* the closing update of cleanDatabases
cdEnd ==
    /\ pc = "cd_loop"
    /\ fileIndex = Len(foundFiles)
    /\ sendProgress(Update("database", Pct(65, 1)))
    /\ pc' = "phase_cache"
    /\ UNCHANGED <<others, fixed, backups, appName, ret, files, dirs,
                   callVars, now, faults, running, phases, ops, created, received,
                   recvCount>>


(* ------------------------------- cleanCache ----------------------------- *)
\* Engine.GetDirectorySize of a matched directory: a full directory holds
\* one unit of its own, and the walk adds what the directories inside hold
GetDirectorySizeOf(ds, src) ==
    (IF ds[src.a][src.b] = "full" THEN 1 ELSE 0) +
    Cardinality({ p \in inside : p[2] = src /\ ds[p[1].a][p[1].b] = "full" })

\* the first update of cleanCache
cleanCache ==
    /\ pc = "cc_begin"
    /\ phases' = Append(phases, "cleanCache")
    /\ sendProgress(Update("cache", Pct(80, 1)))
    /\ allFoundDirs' = 0
    /\ stats' = [k \in 1..config.cacheDirectories |->
                   [DirCount |-> 0, TotalSize |-> 0, CleanedDirs |-> 0]]
    /\ dirIndex' = 0
    /\ pc' = "cc_search"
    /\ UNCHANGED <<others, fixed, backups, appName, ret, files, dirs,
                   foundFiles, foundDirs, fileIndex, i, now, faults, running, ops, created,
                   received, recvCount>>

\* one iteration of the search loop of cleanCache
ccSearch ==
    /\ pc = "cc_search"
    /\ dirIndex < config.cacheDirectories
    /\ LET K == config.cacheDirectories
       IN sendProgress(Update("cache", Pct(80 * K + 5 * dirIndex, K)))
    /\ allFoundDirs' =
         allFoundDirs + Len(findDirectoriesRecursive(dirs, dirIndex + 1))
    /\ LET k == dirIndex + 1
           found == findDirectoriesRecursive(dirs, k)
       IN stats' = [stats EXCEPT
                      ![k].DirCount = Len(found),
                      ![k].TotalSize =
                          Sum([n \in DOMAIN found |->
                                 GetDirectorySizeOf(dirs, DirSrc(k, found[n]))],
                              DOMAIN found)]
    /\ dirIndex' = dirIndex + 1
    /\ UNCHANGED <<others, fixed, backups, appName, pc, ret, files,
                   dirs, foundFiles, foundDirs, fileIndex, i, now, faults, running, phases, ops,
                   created, received, recvCount>>

\* after the search loop: nothing found (100 and return), or the 85 update
ccSearchEnd ==
    /\ pc = "cc_search"
    /\ dirIndex = config.cacheDirectories
    /\ IF allFoundDirs = 0
         THEN /\ sendProgress(Update("cache", Hundred))
              /\ pc' = "complete"
              /\ UNCHANGED dirIndex
         ELSE /\ sendProgress(Update("cache", Pct(85, 1)))
              /\ pc' = "cc_kind"
              /\ dirIndex' = 0
    /\ UNCHANGED <<others, fixed, backups, appName, ret, files, dirs,
                   foundFiles, fileIndex, allFoundDirs, stats, foundDirs, i, now, faults, running,
                   phases, ops, created, received, recvCount>>

\* head of one iteration of the clearing loop over the cache kinds
ccKind ==
    /\ pc = "cc_kind"
    /\ dirIndex < config.cacheDirectories
    /\ LET K == config.cacheDirectories
       IN /\ foundDirs' = findDirectoriesRecursive(dirs, dirIndex + 1)
          /\ IF foundDirs' = <<>>
            THEN /\ dirIndex' = dirIndex + 1
                 /\ UNCHANGED <<pc, i, emitted, progressChan, backlog>>
            ELSE /\ sendProgress(Update("cache",
                                        Pct(85 * 2 * K + 10 * dirIndex, 2 * K)))
                 /\ i' = 0
                 /\ pc' = "cc_dir"
                 /\ UNCHANGED dirIndex
    /\ UNCHANGED <<others, fixed, backups, appName, ret, files, dirs,
                   foundFiles, fileIndex, allFoundDirs, stats, now, faults, running, phases,
                   ops, created, received, recvCount>>

\* Engine.clearDirectoryContents followed by the size check: the state of
\* the directory after a pass that removed everything or nothing
ClearPass(state, cleared) == IF cleared THEN "empty" ELSE state

\* a clearing that steps over the matched directories it meets
KeepInner(ds, src) == ds

\* the tree after the contents of the directory src were removed: the
\* matched directories inside it are removed with them
RemoveInner(ds, src) ==
    [k \in DOMAIN ds |->
       [j \in DOMAIN ds[k] |->
          IF <<DirSrc(k, j), src>> \in inside THEN "gone" ELSE ds[k][j]]]

\* the tree after a pass on src that removed everything (or nothing): the
\* directories that are src under another name change with it
Pass(ds, src, cleared) ==
    IF ~cleared THEN ds
    ELSE LET after == RemoveInner(
                        [ds EXCEPT ![src.a][src.b] = ClearPass(@, cleared)], src)
         IN [k \in DOMAIN after |->
               [j \in DOMAIN after[k] |->
                  IF Same(DirSrc(k, j), src) THEN after[src.a][src.b]
                  ELSE after[k][j]]]

\* a second pass whatever the size check finds
SecondPassAlways(sizeAfter) == TRUE

\* "if sizeAfter > 0": the second clearDirectoryContents
SecondPass(sizeAfter) == sizeAfter > 0

\* one iteration of the directory loop of cleanCache
ccDir ==
    /\ pc = "cc_dir"
    /\ LET K == config.cacheDirectories
           k == dirIndex + 1
           n == Len(foundDirs)
           j == foundDirs[i + 1]
           src == DirSrc(k, j)
           parts == Parts(CacheDirs[k])
           base == parts[Len(parts)]
           removed == dirs[k][j] = "gone"
       IN /\ i < n
          /\ \E gone \in IF removed THEN {TRUE} ELSE BOOLEAN, b \in BackupInputs,
                c1 \in BOOLEAN, c2 \in BOOLEAN :
               LET run == ~dryRun /\ Proceeds(b.o)
                   after1 == Pass(dirs, src, c1)
                   sizeAfter == GetDirectorySizeOf(after1, src)
                   second == run /\ SecondPass(sizeAfter)
                   after2 == Pass(after1, src, second /\ c2)
                   cost == IF gone THEN Cost(~removed)
                           ELSE Cost(b.o # "ok") + Cost(~dryRun /\ ~c1)
                                + Cost(second /\ ~c2)
                   event(op) == [op |-> op, phase |-> "cache", src |-> src]
               IN /\ faults + cost <= FaultBudget
                  /\ faults' = faults + cost
                  /\ IF gone
                       THEN \* os.Stat reports the directory missing: skipped
                            /\ b = CHOOSE x \in BackupInputs : TRUE
                            /\ c1 /\ c2
                            /\ UNCHANGED <<backups, now, created, ops, dirs, stats,
                                           emitted, progressChan, backlog>>
                       ELSE /\ sendProgress(Update("cache",
                                 Pct(85 * n * K + 10 * dirIndex * n + 5 * i, n * K)))
                            /\ backups' = CreateBackup(backups, src, TRUE, "cache",
                                                       base, b.t, b.o)
                            /\ now' = b.t
                            /\ created' = Created(src, "cache", base, b)
                            /\ ops' = ops \o ItemOps("cache", src,
                                                      IF run THEN 1 ELSE 0)
                                         \o failedFiles("cache", src, ~dryRun /\ ~c1)
                                         \o (IF run
                                               THEN <<[op |-> "measured",
                                                       phase |-> "cache", src |-> src,
                                                       size |-> sizeAfter]>>
                                               ELSE <<>>)
                                         \o (IF second THEN <<event("mutate")>>
                                             ELSE <<>>)
                            /\ (dryRun \/ ~second) => c2
                            /\ dryRun => c1
                            /\ dirs' = IF run THEN after2 ELSE dirs
                            /\ stats' = IF ~dryRun /\ c1
                                          THEN [stats EXCEPT ![k].CleanedDirs = @ + 1]
                                          ELSE stats
          /\ IF i + 1 = n
               THEN /\ dirIndex' = dirIndex + 1
                    /\ pc' = "cc_kind"
               ELSE UNCHANGED <<dirIndex, pc>>
    /\ i' = i + 1
    /\ UNCHANGED <<others, fixed, appName, ret, files, foundFiles,
                   fileIndex, allFoundDirs, foundDirs, running, phases, received, recvCount>>

\* the closing update of cleanCache
ccEnd ==
    /\ pc = "cc_kind"
    /\ dirIndex = config.cacheDirectories
    /\ sendProgress(Update("cache", Hundred))
    /\ pc' = "complete"
    /\ UNCHANGED <<others, fixed, backups, appName, ret, files, dirs,
                   callVars, now, faults, running, phases, ops, created, received,
                   recvCount>>

(* ------------------------------- consumer ------------------------------- *)
\* a receive from GetProgressChannel(): the oldest buffered update
Take ==
    /\ aspect = "channel"
    /\ ChanLen > 0
    /\ IF backlog > 0
         THEN /\ backlog' = backlog - 1
              /\ UNCHANGED <<progressChan, received>>
         ELSE /\ received' = Append(received, Head(progressChan))
              /\ progressChan' = Tail(progressChan)
              /\ UNCHANGED backlog
    /\ recvCount' = recvCount + 1
    /\ UNCHANGED <<others, fixed, backups, appName, pc, ret, files,
                   dirs, callVars, now, faults, running, phases, ops, created, emitted>>

\* a reader that takes a bounded number of updates during the call
Receive == recvCount < MaxRecv /\ Take

\* a reader that keeps reading after the call has returned: one iteration of
\* "for update := range progressChan"
Drain == pc = "done" /\ Take

(* --------------------------------- window ------------------------------- *)
\* config.Applications of the default configuration
GuiApps == {"cursor", "windsurf"}

\* the applications ticked in the list and confirmed, in list order
Selections ==
    { q \in UNION { [1..n -> GuiApps] : n \in 1..Cardinality(GuiApps) } :
        \A a, b \in DOMAIN q : a # b => q[a] # q[b] }

\* a CleanApplication call of the command line, not started
EngineAtRest ==
    /\ aspect = "config"
    /\ config = DefaultConfig
    /\ dryRun = FALSE
    /\ appDataPaths = [a \in Apps |-> AppPath]
    /\ inside = {}
    /\ dirPaths = <<>>
    /\ backups = InitialBackups
    /\ backlog = 0
    /\ progressChan = <<>>
    /\ appName = ""
    /\ pc = "idle"
    /\ ret = "none"
    /\ files = BaselineFiles
    /\ dirs = BaselineDirs
    /\ foundFiles = <<>>
    /\ fileIndex = 0
    /\ allFoundDirs = 0
    /\ stats = <<>>
    /\ foundDirs = <<>>
    /\ dirIndex = 0
    /\ i = 0
    /\ now = 0
    /\ faults = 0
    /\ running = FALSE
    /\ phases = <<>>
    /\ ops = <<>>
    /\ created = <<>>
    /\ emitted = <<>>
    /\ received = <<>>
    /\ recvCount = 0

\* NewApp and a confirmed onClean dialog: app.engine is the engine made at
\* start-up (number 0), no goroutine is started yet
GuiInit ==
    /\ EngineAtRest
    /\ selectedApps \in Selections
    /\ nextApp = 0
    /\ appEngine = 0
    /\ cleaners = [k \in DOMAIN selectedApps |->
                      [st |-> "none", engine |-> 0, sent |-> 0]]
    /\ monitors = [k \in DOMAIN selectedApps |->
                      [st |-> "none", engine |-> 0, completedApps |-> {}]]
    /\ chans = [e \in DOMAIN selectedApps |-> <<>>]
    /\ hooks = <<>>
    /\ UnitAtRest

\* App.performCleanup, called by the loop of onClean on the window's
\* goroutine: a new engine replaces app.engine, then both goroutines are
\* started and the call returns
performCleanup ==
    /\ nextApp < Len(selectedApps)
    /\ nextApp' = nextApp + 1
    /\ appEngine' = nextApp + 1
    /\ monitors' = [monitors EXCEPT ![nextApp + 1].st = "spawned"]
    /\ cleaners' = [cleaners EXCEPT ![nextApp + 1].st = "spawned"]
    /\ UNCHANGED <<engineVars, unitVars, selectedApps, chans, hooks>>

\* the values an unsynchronised read of app.engine may return in the
\* goroutine started by call k: the engine of that call or a later one
ReadAppEngine(k) == k..appEngine

\* the monitorProgress goroutine of call k starts: it reads app.engine
monitorStart(k) ==
    /\ monitors[k].st = "spawned"
    /\ \E e \in ReadAppEngine(k) :
         monitors' = [monitors EXCEPT ![k] = [st |-> "reading", engine |-> e,
                                              completedApps |-> {}]]
    /\ UNCHANGED <<engineVars, unitVars, selectedApps, nextApp, appEngine, cleaners,
                   chans, hooks>>

\* the cleanup goroutine of call k starts: it reads app.engine and enters
\* CleanApplication
cleanerStart(k) ==
    /\ cleaners[k].st = "spawned"
    /\ \E e \in ReadAppEngine(k) :
         cleaners' = [cleaners EXCEPT ![k] = [st |-> "running", engine |-> e,
                                              sent |-> 0]]
    /\ UNCHANGED <<engineVars, unitVars, selectedApps, nextApp, appEngine, monitors,
                   chans, hooks>>

\* the updates of one CleanApplication call on an application that is found
\* and not running, as monitorProgress tells them apart: the updates below
\* 100 (as one), the last update of cleanCache and the "complete" update,
\* both with Progress 100 and the application's name
GuiUpdates(app) ==
    <<[app |-> app, hundred |-> FALSE], [app |-> app, hundred |-> TRUE],
      [app |-> app, hundred |-> TRUE]>>

\* sendProgress in the cleanup goroutine of call k, on the channel of the
\* engine it runs on (the few updates of this model never fill a channel)
cleanerSend(k) ==
    /\ cleaners[k].st = "running"
    /\ cleaners[k].sent < Len(GuiUpdates(selectedApps[k]))
    /\ cleaners' = [cleaners EXCEPT ![k].sent = @ + 1]
    /\ chans' = [chans EXCEPT ![cleaners[k].engine] =
                    Append(@, GuiUpdates(selectedApps[k])[cleaners[k].sent + 1])]
    /\ UNCHANGED <<engineVars, unitVars, selectedApps, nextApp, appEngine, monitors,
                   hooks>>

\* CleanApplication returns in the cleanup goroutine of call k
cleanerReturn(k) ==
    /\ cleaners[k].st = "running"
    /\ cleaners[k].sent = Len(GuiUpdates(selectedApps[k]))
    /\ cleaners' = [cleaners EXCEPT ![k].st = "returned"]
    /\ UNCHANGED <<engineVars, unitVars, selectedApps, nextApp, appEngine, monitors,
                   chans, hooks>>

\* whether the progress channel of engine e has been closed: no code of the
\* engine or of the window closes it
closed(e) == FALSE

\* one iteration of "for update := range progressChan" in the monitor of
\* call k: it takes the next update of the channel it reads and starts the
\* completion hook for an application it has not seen complete; it leaves
\* the loop when the channel is closed and empty, and waits otherwise
monitorRange(k) ==
    LET e == monitors[k].engine
    IN /\ monitors[k].st = "reading"
       /\ chans[e] # <<>> \/ closed(e)
       /\ IF chans[e] # <<>>
            THEN LET update == Head(chans[e])
                     starts == update.hundred /\ update.app # ""
                               /\ update.app \notin monitors[k].completedApps
                 IN /\ chans' = [chans EXCEPT ![e] = Tail(@)]
                    /\ monitors' = [monitors EXCEPT ![k].completedApps =
                                      IF starts THEN @ \cup {update.app} ELSE @]
                    /\ hooks' = IF starts THEN Append(hooks, update.app)
                                ELSE hooks
            ELSE /\ monitors' = [monitors EXCEPT ![k].st = "done"]
                 /\ UNCHANGED <<chans, hooks>>
       /\ UNCHANGED <<engineVars, unitVars, selectedApps, nextApp, appEngine,
                      cleaners>>

GuiNext ==
    \/ performCleanup
    \/ \E k \in DOMAIN selectedApps :
         \/ monitorStart(k) \/ cleanerStart(k) \/ cleanerSend(k)
         \/ cleanerReturn(k) \/ monitorRange(k)

\* every goroutine is scheduled
GuiSpec ==
    /\ GuiInit /\ [][GuiNext]_vars
    /\ WF_vars(performCleanup)
    /\ \A k \in 1..Cardinality(GuiApps) :
         /\ WF_vars(k \in DOMAIN selectedApps /\ monitorStart(k))
         /\ WF_vars(k \in DOMAIN selectedApps /\ cleanerStart(k))
         /\ WF_vars(k \in DOMAIN selectedApps /\ cleanerSend(k))
         /\ WF_vars(k \in DOMAIN selectedApps /\ cleanerReturn(k))
         /\ WF_vars(k \in DOMAIN selectedApps /\ monitorRange(k))

(* ---------------------------- specifications ---------------------------- *)
\* the steps of the CleanApplication call
Engine ==
    \/ CleanApplication \/ Validate \/ Prune \/ Discover
    \/ PhaseTelemetry \/ modifyTelemetry \/ mtFile \/ mtEnd
    \/ PhaseDatabase \/ cleanDatabases \/ cdFile \/ cdEnd
    \/ PhaseCache \/ cleanCache \/ ccSearch \/ ccSearchEnd \/ ccKind \/ ccDir \/ ccEnd
    \/ Complete

Next == Engine \/ Receive

Spec == Init /\ [][Next]_vars

\* the call runs on its own goroutine or thread and is always scheduled;
\* nothing is assumed about the consumer
FairSpec == Init /\ [][Next]_vars /\ WF_vars(Engine)

\* the call next to a reader that never stops reading: it takes up to
\* MaxRecv updates at any moments while the call runs and every remaining
\* update after the call has returned
MonitorNext == Engine \/ Receive \/ Drain
MonitorSpec == Init /\ [][MonitorNext]_vars /\ WF_vars(Engine) /\ WF_vars(Drain)

(* ------------------------------ properties ------------------------------ *)
IsPrefix(s, t) == Len(s) <= Len(t) /\ \A k \in 1..Len(s) : s[k] = t[k]

\* the phases of CleanApplication and its completion update, in program order
PhaseOrder ==
    <<"cleanOldBackups", "modifyTelemetry", "cleanDatabases", "cleanCache", "complete">>

\* the application resolves to a non-empty data path
PathResolved == appName \in DOMAIN appDataPaths /\ appDataPaths[appName] # ""

\* a precondition of CleanApplication fails
PreconditionFails == ~PathResolved \/ (config.checkRunning /\ running)

\* no file, database or cache directory differs from the profile found
FilesUntouched == \A k \in DOMAIN files : files[k].ids = "old" /\ files[k].rows = "kept"
DirsUntouched == \A k \in DOMAIN dirs : \A j \in DOMAIN dirs[k] : dirs[k][j] = "full"

\* positions of the updates with progress 100
Hundreds == { j \in DOMAIN emitted : PctEq(emitted[j].progress, Hundred) }

\* C1: once the preconditions pass, cleanOldBackups, modifyTelemetry,
\* cleanDatabases, cleanCache and the completion update run exactly once each
\* and in this order, whatever failures happen inside them.
C1_PhasesInOrder ==
    /\ IsPrefix(phases, PhaseOrder)
    /\ (pc = "done" /\ ret # "err") => phases = PhaseOrder

\* a call that met a failure inside a phase and still ran every phase
C1_Witness == pc = "done" /\ faults > 0 /\ phases = PhaseOrder

\* C2: CleanApplication returns an error exactly when the application has no
\* resolved path or the running-process check is on and the application
\* runs; for every failure inside the phases it returns nil.
C2_ErrorIffPrecondition ==
    /\ ret \in {"none", "nil", "err"}
    /\ pc = "done" <=> ret # "none"
    /\ pc = "done" => (ret = "err" <=> PreconditionFails)

\* a call that returned nil although a phase failed and the application was
\* running with the check switched off
C2_Witness ==
    /\ ret = "nil" /\ faults > 0 /\ phases = PhaseOrder
    /\ running /\ ~config.checkRunning

\* C3: a call that aborts on a precondition has pruned and created no backup,
\* touched no file, database or cache directory, and emitted no 100 update.
C3_AbortChangesNothing ==
    ret = "err" =>
        /\ backups = InitialBackups
        /\ FilesUntouched /\ DirsUntouched
        /\ phases = <<>> /\ ops = <<>> /\ created = <<>>
        /\ Hundreds = {}

\* an abort on the running-process check with an expired backup in the root
C3_Witness ==
    /\ ret = "err" /\ PathResolved /\ running
    /\ config.retentionDays > 0
    /\ \E n \in DOMAIN backups : backups[n].old

C5_OwnEntryPerBackup ==
    \A j, k \in DOMAIN created :
        j # k => created[j].path # created[k].path

\* C6: with dryRun set, CleanApplication changes no file, database row or
\* cache directory and removes no backup entry.
C6_DryRunChangesNothing ==
    dryRun =>
        /\ FilesUntouched /\ DirsUntouched
        /\ DOMAIN InitialBackups \subseteq DOMAIN backups

\* C7: within one call the progress percentages never decrease.
C7_ProgressMonotone ==
    \A j \in 1..(Len(emitted) - 1) :
        PctLeq(emitted[j].progress, emitted[j + 1].progress)

\* C8: a successful call emits exactly one update with progress 100, and it
\* is the last one.
C8_SingleFinalHundred ==
    /\ ret = "nil" => Hundreds = {Len(emitted)}
    /\ ret # "nil" => Hundreds = {}

\* the updates read by the consumer followed by those still buffered
Delivered == received \o progressChan

\* Delivered is a subsequence of emitted, in emission order
InOrderSubsequence ==
    \A j \in DOMAIN Delivered :
        /\ Delivered[j].seq \in DOMAIN emitted
        /\ Delivered[j] = emitted[Delivered[j].seq]
        /\ j > 1 => Delivered[j - 1].seq < Delivered[j].seq

\* what a step that emits an update does to the channel
SendStep ==
    emitted' # emitted =>
        LET update == emitted'[Len(emitted')]
        IN /\ emitted' = Append(emitted, update)
           /\ backlog' = backlog
           /\ progressChan' = IF ChanLen < ChanCap
                                THEN Append(progressChan, update)
                                ELSE progressChan

\* C9: sendProgress never blocks: with fewer than 100 updates buffered the
\* update is appended, with exactly 100 it is dropped and the buffer is
\* unchanged; the consumer gets a subsequence of the emitted updates in order.
C9_NonBlockingSend ==
    /\ [](ChanLen <= ChanCap /\ InOrderSubsequence /\ (pc # "done" => ENABLED Engine))
    /\ [][SendStep]_vars

\* an update of this call was dropped at a full channel
C9_Witness ==
    /\ ChanLen = ChanCap
    /\ Len(emitted) > Len(Delivered)
    /\ Len(progressChan) > 0

\* C10: every call over a finite profile eventually returns, also when
\* nothing reads the channel.
C10_Terminates == <>(pc = "done")

\* a call that ran every phase with a full channel and no reader
C10_Witness ==
    /\ pc = "done" /\ ret = "nil"
    /\ recvCount = 0 /\ ChanLen = ChanCap

\* C11: after a successful call, a reader that keeps reading has received the
\* "complete" update once it has emptied the channel, whatever the relative
\* speed of the call and the reader.
C11_CompletionDelivered ==
    (pc = "done" /\ ret = "nil" /\ aspect = "channel" /\ ChanLen = 0) =>
        \E j \in DOMAIN received : received[j].type = "complete"

\* the CleanApplication invocations that are executing
Executing == { k \in DOMAIN cleaners : cleaners[k].st = "running" }

\* C12: at most one CleanApplication invocation executes at any time: the
\* cleanup of the next selected application does not start before the
\* cleanup of the previous one has returned.
C12_OneCleanupAtATime == Cardinality(Executing) <= 1

(* ----------------------- methods called on their own -------------------- *)
\* the paths CreateBackup is called with: a file and a directory that exist,
\* and two paths with nothing behind them
PresentSources == {FileSrc(1), DirSrc(1, 1)}
MissingSources == {FileSrc(0), DirSrc(1, 0)}

(* JSON documents, as json.Unmarshal hands them to processNestedJSON *)
JStr(kind, gen) == [t |-> "str", kind |-> kind, gen |-> gen]
JNum == [t |-> "num"]
JObj(m) == [t |-> "obj", m |-> m]
JArr(e) == [t |-> "arr", e |-> e]

\* an identifier written before the first run
OrigId == JStr("orig", 0)

\* configured keys, and those of them whose lower-cased name contains "session"
TelemetryKeys == {"machineId", "sessionId"}
SessionKeys == {"authToken"}
SessionNamed == {"sessionId"}

Leaves == {OrigId, JNum}
EmptyMap == [k \in {} |-> JNum]
Field(k, V) == {EmptyMap} \cup { k :> v : v \in V }

\* objects below the top level, alone, in an array and in an array of arrays
InnerObjs ==
    { JObj(a @@ b) : a \in Field("machineId", Leaves),
                     b \in Field("authToken", {OrigId}) }
DataValues ==
    InnerObjs \cup { JArr(<<o>>) : o \in InnerObjs }
              \cup { JArr(<<JArr(<<o>>)>>) : o \in InnerObjs }

\* the documents a run starts from
Docs ==
    { JObj(a @@ b @@ c @@ d) :
        a \in Field("machineId", Leaves), b \in Field("sessionId", {OrigId}),
        c \in Field("authToken", {OrigId}), d \in Field("data", DataValues) }

\* a telemetry key that keeps the value it had
KeepId(key, newMachineID, newSessionID, old) == old

\* one identifier for every telemetry key, the session ones included
MachineIdOnly(key, newMachineID, newSessionID, old) == newMachineID

\* the identifier processNestedJSON stores at a telemetry key
NewId(key, newMachineID, newSessionID, old) ==
    IF key \in SessionNamed THEN newSessionID ELSE newMachineID

\* no session key is deleted
DeletedNone(m) == {}

\* the keys processNestedJSON deletes from one object
Deleted(m) == DOMAIN m \cap SessionKeys

\* processNestedJSON on the object m: the object afterwards and the two
\* counters
RECURSIVE processNestedJSON(_, _, _)
processNestedJSON(m, newMachineID, newSessionID) ==
    LET hit == { k \in DOMAIN m : k \in TelemetryKeys /\ m[k].t = "str" }
        upd == [k \in DOMAIN m |->
                  IF k \in hit THEN NewId(k, newMachineID, newSessionID, m[k])
                  ELSE m[k]]
        del == Deleted(upd)
        keep == DOMAIN m \ del
        Item(v) == IF v.t = "obj"
                     THEN LET r == processNestedJSON(v.m, newMachineID, newSessionID)
                          IN [v |-> JObj(r.m), u |-> r.u, d |-> r.d]
                     ELSE [v |-> v, u |-> 0, d |-> 0]
        sub == [k \in keep |->
                  IF upd[k].t = "arr"
                    THEN LET rs == [j \in DOMAIN upd[k].e |-> Item(upd[k].e[j])]
                         IN [v |-> JArr([j \in DOMAIN rs |-> rs[j].v]),
                             u |-> Sum([j \in DOMAIN rs |-> rs[j].u], DOMAIN rs),
                             d |-> Sum([j \in DOMAIN rs |-> rs[j].d], DOMAIN rs)]
                    ELSE Item(upd[k])]
    IN [m |-> [k \in keep |-> sub[k].v],
        u |-> Cardinality(hit) + Sum([k \in keep |-> sub[k].u], keep),
        d |-> Cardinality(del) + Sum([k \in keep |-> sub[k].d], keep)]

\* documents whose top level is an array of one object
ArrayDocs == { JArr(<<o>>) : o \in InnerObjs }

\* what is left of a file when a copy into it has stopped early
Partial(x) == IF x.t = "partial" THEN x ELSE [t |-> "partial", of |-> x]

\* what the file operations of one processJSONFile call do: the copy to
\* .bak succeeds, fails before the .bak is created ("none") or fails after
\* ("partial"); os.ReadFile, os.WriteFile of the .tmp, os.Rename and the
\* copy back from the .bak succeed or fail
NoFailure == [bak |-> "ok", read |-> TRUE, write |-> TRUE, rename |-> TRUE,
              restore |-> TRUE]
Failures(io) ==
    Cost(io.bak # "ok") + Cost(~io.read) + Cost(~io.write) + Cost(~io.rename)
    + Cost(~io.restore)
IOs == [bak : {"ok", "none", "partial"}, read : BOOLEAN, write : BOOLEAN,
        rename : BOOLEAN, restore : BOOLEAN]

\* files of another owner that may lie next to the target under the names
\* <jsonPath>.bak and <jsonPath>.tmp before a call
Foreign == [t |-> "other"]
Siblings == [bak : {NoDoc, Foreign}, tmp : {NoDoc, Foreign}]

\* the targets next to which such siblings are placed: one that is
\* rewritten, one that holds no configured key, one array
SidecarDocs ==
    {JObj(("machineId" :> OrigId) @@ ("authToken" :> OrigId)),
     JObj(("data" :> JNum)),
     JArr(<<JObj(("machineId" :> OrigId))>>)}

\* a top-level array whose objects are processed like those of an object
arrayDocumentProcessed(d, newMachineID, newSessionID) ==
    LET r == processNestedJSON(("root" :> d), newMachineID, newSessionID)
    IN [doc |-> r.m["root"], u |-> r.u, d |-> r.d]

\* the branch of processJSONFile for a document that unmarshals into a
\* slice: a warning, and the return (false, 0, 0, true)
arrayDocument(d, newMachineID, newSessionID) == [doc |-> d, u |-> 0, d |-> 0]

\* Engine.processJSONFile on a file holding d, with the identifiers of run
\* number run and the file operations behaving as io: the file and its
\* .bak and .tmp afterwards, the return values, and the step that failed
processJSONFile(d, side, run, io) ==
    LET \* copyFile(jsonPath, tempBackupPath): os.Create truncates a file of
        \* that name; a copy that fails before os.Create leaves it alone
        tempBackup == CASE io.bak = "ok" -> d
                        [] io.bak = "partial" -> Partial(d)
                        [] OTHER -> side.bak
        \* the deferred os.Remove(tempBackupPath), registered when the copy
        \* returned no error
        bakLeft == IF io.bak = "ok" THEN NoDoc ELSE tempBackup
        \* the .tmp is written only on the rewrite path, and is then renamed
        \* over the target or removed
        Return(target, modified, u, del, success, at) ==
            [doc |-> target, modified |-> modified, updatedKeys |-> u,
             deletedKeys |-> del, success |-> success, failedAt |-> at,
             bak |-> bakLeft,
             tmp |-> IF modified \/ at \in {"write", "rename"}
                     THEN NoDoc ELSE side.tmp]
        \* "if _, err := os.Stat(tempBackupPath); err == nil": copyFile from
        \* the .bak over the target
        restored == IF tempBackup = NoDoc THEN d
                    ELSE IF io.restore THEN tempBackup ELSE Partial(tempBackup)
    IN IF ~io.read THEN Return(d, FALSE, 0, 0, FALSE, "read")
       ELSE IF d.t = "arr"
         THEN LET a == arrayDocument(d, JStr("machine", run), JStr("session", run))
              IN Return(a.doc, a.u + a.d > 0, a.u, a.d, TRUE, "none")
       ELSE IF d.t # "obj" THEN Return(d, FALSE, 0, 0, FALSE, "parse")
       ELSE LET r == processNestedJSON(d.m, JStr("machine", run),
                                       JStr("session", run))
            IN IF r.u + r.d = 0 THEN Return(d, FALSE, 0, 0, TRUE, "none")
               ELSE IF ~io.write THEN Return(restored, FALSE, 0, 0, FALSE, "write")
               ELSE IF ~io.rename
                 THEN Return(restored, FALSE, 0, 0, FALSE, "rename")
               ELSE Return(JObj(r.m), TRUE, r.u, r.d, TRUE, "none")

(* SQLite files: table name -> columns and rows.  A row is its cell in the
   first column (the key) and its cell in the second (the value). *)
PriorityTables == {"ItemTable", "Settings", "Preferences", "Config", "Configuration"}

\* column lists: the exact pair, a pair found by substring whose key column
\* has a blank in its name, and no pair
ExactPair == <<"key", "value">>
LoosePair == <<"key 1", "data">>
NoPair == <<"a", "b">>

\* modelled column names whose lower-cased form contains "key", "name", "id"
\* or "setting", and those containing "value", "data" or "content"
KeyLike == {"key", "key 1"}
ValueLike == {"value", "data"}

\* modelled names that match ^[a-zA-Z_][a-zA-Z0-9_]*$
SafeIdentifiers == {"ItemTable", "kv_log", "key", "value", "data", "a", "b"}
isValidTableName(name) == name \in SafeIdentifiers
isValidColumnName(name) == name \in SafeIdentifiers

\* rows a table may hold at the start
MaxRows == 2
RowKeys == {"machineId", "sessionId", "authToken", "theme"}
RowSets ==
    UNION { [S -> {OrigId}] :
              S \in { T \in SUBSET RowKeys : Cardinality(T) <= MaxRows } }

TableChoices(name, layouts, rows) ==
    {EmptyDb} \cup { name :> [cols |-> c, rows |-> rows] : c \in layouts }

\* the databases on which the connection strings are tried: an empty one
\* and one with a row to rewrite and a row to delete
ConnectDbs ==
    {EmptyDb,
     "ItemTable" :> [cols |-> ExactPair,
                     rows |-> ("machineId" :> OrigId) @@ ("authToken" :> OrigId)]}

\* the databases a run starts from: a priority table, a table with a safe
\* name and a table with a blank in its name, all holding the same rows
Dbs ==
    UNION { { a @@ b @@ c :
                a \in TableChoices("ItemTable", {ExactPair, NoPair}, r),
                b \in TableChoices("kv_log", {LoosePair}, r),
                c \in TableChoices("my t", {ExactPair}, r) } :
            r \in RowSets }

\* the last column of cols whose name is in S, "" if there is none
LastIn(cols, S) ==
    LET J == { j \in DOMAIN cols : cols[j] \in S }
    IN IF J = {} THEN "" ELSE cols[CHOOSE j \in J : \A m \in J : m <= j]

\* Engine.analyzeTableStructure
analyzeTableStructure(name, cols) ==
    LET has(c) == \E j \in DOMAIN cols : cols[j] = c
        keyCol == LastIn(cols, KeyLike)
        valueCol == LastIn(cols, ValueLike \ KeyLike)
    IN IF has("key") /\ has("value")
         THEN [found |-> TRUE, name |-> name, keyColumn |-> "key",
               valueColumn |-> "value"]
         ELSE [found |-> keyCol # "" /\ valueCol # "", name |-> name,
               keyColumn |-> keyCol, valueColumn |-> valueCol]

\* the tables findRelevantTables hands to analyzeTableStructure (no modelled
\* table is named sqlite_*)
Analysed(d) ==
    LET pri == DOMAIN d \cap PriorityTables
    IN IF \E n \in pri : analyzeTableStructure(n, d[n].cols).found
         THEN pri ELSE DOMAIN d

\* Engine.findRelevantTables: the TableInfo values returned
findRelevantTables(d) ==
    LET Info(n) == analyzeTableStructure(n, d[n].cols)
        pri == { Info(n) : n \in { m \in DOMAIN d \cap PriorityTables : Info(m).found } }
    IN IF pri # {} THEN pri
       ELSE { Info(n) : n \in { m \in DOMAIN d : Info(m).found } }

\* a DELETE that lost its WHERE clause
DeletedRowsAll(rows, table, failed) == DOMAIN rows \ TelemetryKeys

\* the rows the DELETE statements of one table remove; failed holds the
\* statements whose tx.Exec returned an error, as <<table, key>>
DeletedRows(rows, table, failed) ==
    { k \in DOMAIN rows \cap SessionKeys : <<table, k>> \notin failed }

\* the rows the UPDATE statements of one table rewrite
UpdatedRows(rows, table, failed) ==
    { k \in DOMAIN rows \cap TelemetryKeys : <<table, k>> \notin failed }

\* the connection strings of one database file, in the order of the loop:
\* dbPath + "?_journal=WAL&_timeout=5000", dbPath + "?mode=rw", dbPath
connectionStrings == <<"wal-timeout", "rw", "plain">>

\* which connection strings get as far as the transaction: sql.Open and
\* db.Ping succeed from some string on, or for none
Connections ==
    { [k \in DOMAIN connectionStrings |-> k >= first] :
        first \in 1..Len(connectionStrings) + 1 }
AllConnect == [k \in DOMAIN connectionStrings |-> TRUE]

\* a loop that goes on with the next connection string when the commit failed
afterTransactionRetry(success) == IF success THEN "return" ELSE "continue"

\* how the body of the connection loop ends once the connection is up: every
\* path from the lookup of the tables to the end of the body is a return
afterTransaction(success) == "return"

\* the loop over connectionStrings from string k on, the transaction on a
\* connection that is up ending with success or not: the strings tried, the
\* strings under which the body ran, and whether the loop ran out of strings
RECURSIVE tryConnections(_, _, _)
tryConnections(works, k, success) ==
    IF k > Len(connectionStrings)
      THEN [tried |-> <<>>, ran |-> <<>>, exhausted |-> TRUE]
    ELSE IF works[k] /\ afterTransaction(success) = "return"
      THEN [tried |-> <<connectionStrings[k]>>, ran |-> <<connectionStrings[k]>>,
            exhausted |-> FALSE]
    ELSE LET rest == tryConnections(works, k + 1, success)
         IN [tried |-> <<connectionStrings[k]>> \o rest.tried,
             ran |-> (IF works[k] THEN <<connectionStrings[k]>> ELSE <<>>)
                       \o rest.ran,
             exhausted |-> rest.exhausted]

\* "return false, 0, 0, false" after the loop: what a method returns when no
\* connection string worked, r being what it returns otherwise
allConnectionsFailed(r, d) ==
    [f \in DOMAIN r |->
       CASE f = "db" -> d
         [] f \in {"modified", "success"} -> FALSE
         [] f = "idents" -> {}
         [] OTHER -> 0]

\* a commit error that is logged and not returned
commitFailedIgnored(same) == same

\* "if err := tx.Commit(); err != nil": the values returned, same being
\* the file as it was with zero counts; the statements of the transaction
\* never reach the file
commitFailed(same) == [same EXCEPT !.success = FALSE]

\* Engine.processSQLiteFile on a file with the tables d, from the first
\* connection that opens: the file afterwards, the return values and the
\* identifiers put into SQL text
processSQLiteFile(d, run, failed, commits) ==
    LET tables == findRelevantTables(d)
        names == { t.name : t \in tables }
        upd(n) == UpdatedRows(d[n].rows, n, failed)
        del(n) == DeletedRows(d[n].rows, n, failed)
        rows(n) == [k \in DOMAIN d[n].rows \ del(n) |->
                      IF k \in upd(n)
                        THEN NewId(k, JStr("machine", run), JStr("session", run),
                                   d[n].rows[k])
                        ELSE d[n].rows[k]]
        u == Sum([n \in names |-> Cardinality(upd(n))], names)
        dl == Sum([n \in names |-> Cardinality(del(n))], names)
        idents == Analysed(d) \cup
                  UNION { {t.name, t.keyColumn, t.valueColumn} : t \in tables }
        same == [db |-> d, modified |-> FALSE, updatedKeys |-> 0,
                 deletedKeys |-> 0, success |-> TRUE, idents |-> idents]
    IN CASE tables = {} -> same
         [] ~commits    -> commitFailed(same)
         [] u + dl = 0  -> same
         [] OTHER ->
              [db |-> [n \in DOMAIN d |->
                         IF n \in names THEN [d[n] EXCEPT !.rows = rows(n)]
                         ELSE d[n]],
               modified |-> TRUE, updatedKeys |-> u, deletedKeys |-> dl,
               success |-> TRUE, idents |-> idents]

\* modelled table names whose lower-cased form contains a configured cache
\* table pattern, and modelled cells that contain a configured keyword
CachePatternNamed == {"kv_log"}
KeywordNamed == {"authToken", "sessionId"}

\* Engine.cleanSQLiteDatabaseAdvanced on a file with the tables d: the file
\* afterwards, the return values and the identifiers put into SQL text.
\* failed holds the tables whose DELETE statements returned an error.  No
\* modelled column is named like a user or account column.
cleanSQLiteDatabaseAdvanced(d, failed, commits) ==
    LET valid == { n \in DOMAIN d : isValidTableName(n) }
        emptied == (valid \cap CachePatternNamed) \ failed
        columns(n) == { j \in DOMAIN d[n].cols : isValidColumnName(d[n].cols[j]) }
        \* the key cell of a row is in column 1
        matched(n) == IF n \in failed \/ 1 \notin columns(n) THEN {}
                      ELSE DOMAIN d[n].rows \cap KeywordNamed
        gone(n) == IF n \in emptied THEN DOMAIN d[n].rows
                   ELSE IF n \in valid THEN matched(n) ELSE {}
        cleanedRecords == Sum([n \in valid |-> Cardinality(gone(n))], valid)
        idents == valid \cup UNION { { d[n].cols[j] : j \in columns(n) } : n \in valid }
        same == [db |-> d, modified |-> FALSE, cleanedRecords |-> 0,
                 success |-> TRUE, idents |-> idents]
    IN CASE DOMAIN d = {}      -> [same EXCEPT !.idents = {}]
         [] ~commits           -> commitFailed(same)
         [] cleanedRecords = 0 -> same
         [] OTHER ->
              [db |-> [n \in DOMAIN d |->
                         [d[n] EXCEPT !.rows =
                            [k \in DOMAIN d[n].rows \ gone(n) |-> d[n].rows[k]]]],
               modified |-> TRUE, cleanedRecords |-> cleanedRecords,
               success |-> TRUE, idents |-> idents]

(* Directories: entry name -> entry.  A link names what it points to, a
   file or a directory outside the cleared directory. *)
EFile == [t |-> "file"]
ELink(target) == [t |-> "link", to |-> target]
EDir(sub) == [t |-> "dir", sub |-> sub]

Entry(name, e) == {NoEntries} \cup {name :> e}

\* the directories a clearing starts from: any of a file, a link to a file,
\* a link to a directory, and a sub-directory with a file and a link
Trees ==
    { a @@ b @@ c @@ d :
        a \in Entry("data_0", EFile), b \in Entry("lf", ELink("outFile")),
        c \in Entry("ld", ELink("outDir")),
        d \in Entry("sub", EDir(("f" :> EFile) @@ ("sl" :> ELink("outDir")))) }

\* a mode taken with os.Stat: the link is followed
EntryModeFollow(e) ==
    IF e.t = "link" THEN (IF e.to = "outDir" THEN "dir" ELSE "file") ELSE e.t

\* the mode entry.Info() reports: that of the entry itself (lstat)
EntryMode(e) == e.t

\* Engine.clearDirectoryContents once os.ReadDir has listed entries: what is
\* left, the counters, and the outside directories whose contents were
\* removed.  noInfo holds the entries whose Info() fails, stuck those that
\* cannot be removed.
RECURSIVE clearDirectoryContents(_, _, _)
clearDirectoryContents(entries, noInfo, stuck) ==
    LET One(n) ==
          LET e == entries[n]
              mode == EntryMode(e)
              sub == IF e.t = "dir" /\ n \notin noInfo /\ e.sub # NoEntries
                       THEN clearDirectoryContents(e.sub, noInfo, stuck)
                       ELSE [left |-> IF e.t = "dir" THEN e.sub ELSE NoEntries,
                             removedFiles |-> 0, removedDirs |-> 0,
                             failedItems |-> 0, emptied |-> {}]
              \* os.ReadDir(path) and the recursive call go through a link
              through == IF n \notin noInfo /\ mode = "dir" /\ e.t = "link"
                           THEN {e.to} ELSE {}
          IN [keep |-> n \in stuck,
              entry |-> IF e.t = "dir" THEN EDir(sub.left) ELSE e,
              files |-> IF n \notin noInfo /\ n \notin stuck /\ mode # "dir"
                          THEN 1 ELSE 0,
              dirs |-> IF n \notin noInfo /\ n \notin stuck /\ mode = "dir"
                         THEN 1 ELSE 0,
              below |-> sub,
              emptied |-> through \cup sub.emptied]
        names == DOMAIN entries
        kept == { n \in names : One(n).keep }
    IN [left |-> [n \in kept |-> One(n).entry],
        removedFiles |-> Sum([n \in names |-> One(n).files], names),
        removedDirs |-> Sum([n \in names |-> One(n).dirs], names),
        failedItems |-> Cardinality(kept),
        emptied |-> UNION { One(n).emptied : n \in names }]

\* the names of the entries of a directory, at every depth
RECURSIVE Names(_)
Names(entries) ==
    DOMAIN entries \cup
    UNION { IF entries[n].t = "dir" THEN Names(entries[n].sub) ELSE {} :
            n \in DOMAIN entries }

\* a size that counts what a directory itself occupies
RECURSIVE GetDirectorySizeWithDirs(_)
GetDirectorySizeWithDirs(entries) ==
    1 + Sum([n \in DOMAIN entries |->
               IF entries[n].t = "dir"
                 THEN GetDirectorySizeWithDirs(entries[n].sub) ELSE 1],
            DOMAIN entries)

\* Engine.GetDirectorySize: filepath.Walk adds info.Size() of everything
\* that is not a directory; every file and every link occupies one unit
RECURSIVE GetDirectorySize(_)
GetDirectorySize(entries) ==
    Sum([n \in DOMAIN entries |->
           IF entries[n].t = "dir" THEN GetDirectorySize(entries[n].sub) ELSE 1],
        DOMAIN entries)

(* Paths.  A string is the sequence of its pieces: literal text, the path
   separator, "~", and the three placeholder forms.  The empty string is
   the empty sequence. *)
Tilde == [t |-> "tilde"]
Slash == [t |-> "sep", s |-> "/"]
Lit(s) == [t |-> "lit", s |-> s]
Dollar(n) == [t |-> "dollar", n |-> n]
Brace(n) == [t |-> "brace", n |-> n]
Percent(n) == [t |-> "percent", n |-> n]

EnvNames == {"APPDATA", "XDG_CONFIG_HOME"}
Placeholders == UNION { {Dollar(n), Brace(n), Percent(n)} : n \in EnvNames }

\* pieces of a template
MaxTokens == 2
Templates ==
    UNION { [1..n -> {Tilde, Slash, Lit("Cursor")} \cup Placeholders] :
              n \in 0..MaxTokens }

\* the pieces of a value: nothing for the empty string
Text(s) == IF s = "" THEN <<>> ELSE <<Lit(s)>>

RECURSIVE Pieces(_, _, _)
Pieces(q, One(_), k) ==
    IF k > Len(q) THEN <<>> ELSE One(q[k]) \o Pieces(q, One, k + 1)

\* Engine.expandPathTemplate: "~" at the start becomes the home directory
\* when os.UserHomeDir succeeds; os.Expand replaces $NAME and ${NAME} by
\* os.Getenv(NAME); the %NAME% pass replaces a match by the value, and
\* returns the match when the value is empty; filepath.FromSlash
expandPathTemplate(template, h) ==
    LET homed == IF template # <<>> /\ Head(template) = Tilde /\ h.home # ""
                   THEN <<Lit(h.home)>> \o Tail(template) ELSE template
        Expand(x) == IF x.t \in {"dollar", "brace"} THEN Text(h.vars[x.n])
                     ELSE <<x>>
        Windows(x) == IF x.t = "percent" /\ h.vars[x.n] # ""
                        THEN Text(h.vars[x.n]) ELSE <<x>>
        FromSlash(x) == IF x.t = "sep" /\ h.os = "windows"
                          THEN <<[t |-> "sep", s |-> "\\"]>> ELSE <<x>>
    IN Pieces(Pieces(Pieces(homed, Expand, 1), Windows, 1), FromSlash, 1)

\* the hosts on which a template is expanded: os.Getenv gives "" for a
\* variable that is unset, os.UserHomeDir may fail ("")
ExpandHosts ==
    [vars : [EnvNames -> {"", "C:/Users/u/AppData"}], home : {"", "/home/u"},
     os : {"linux", "windows"}, applications : {<<>>}, disk : {{}}]

(* Discovery. *)
\* path templates of one profile for one OS
MaxTemplates == 2
ProfileTemplates ==
    {<<Tilde, Slash, Lit("Cursor")>>, <<Percent("APPDATA"), Slash, Lit("Cursor")>>,
     <<Brace("XDG_CONFIG_HOME"), Slash, Lit("Cursor")>>}
DataPaths ==
    {<<>>} \cup
    { ("linux" :> l) : l \in UNION { [1..n -> ProfileTemplates] : n \in 0..MaxTemplates } }

DiscoverHosts ==
    { h \in [vars : [EnvNames -> {"", "/home/u/.config"}], home : {"/home/u"},
             os : {"linux"},
             applications : { ("cursor" :> c) @@
                              ("windsurf" :> ("linux" :> <<<<Percent("APPDATA")>>>>)) :
                              c \in DataPaths },
             disk : SUBSET { <<Lit("/home/u"), Slash, Lit("Cursor")>>,
                             <<Lit("/home/u/.config"), Slash, Lit("Cursor")>>,
                             <<Percent("APPDATA"), Slash, Lit("Cursor")>> }] :
        h.vars["XDG_CONFIG_HOME"] # "" }

\* the map before discovery has filled it
NoPaths == <<>>

\* a loop over the templates that does not stop at the first path found
RECURSIVE lastFound(_, _, _, _)
lastFound(paths, k, h, found) ==
    IF k > Len(paths) THEN found
    ELSE LET expandedPath == expandPathTemplate(paths[k], h)
         IN lastFound(paths, k + 1, h,
                      IF expandedPath \in h.disk THEN expandedPath ELSE found)

\* the loop of discoverAppDataPaths over the templates of one profile:
\* os.Stat of each expanded path, break at the first that exists
RECURSIVE firstFound(_, _, _, _)
firstFound(paths, k, h, found) ==
    IF k > Len(paths) THEN found
    ELSE LET expandedPath == expandPathTemplate(paths[k], h)
         IN IF expandedPath \in h.disk THEN expandedPath
            ELSE firstFound(paths, k + 1, h, found)

\* Engine.discoverAppDataPaths, the profiles taken in the order the map
\* iteration yields them
RECURSIVE discoverAppDataPaths(_, _, _)
discoverAppDataPaths(order, h, paths) ==
    IF order = <<>> THEN paths
    ELSE LET appConfig == h.applications[Head(order)]
             path == IF h.os \notin DOMAIN appConfig THEN <<>>
                     ELSE firstFound(appConfig[h.os], 1, h, <<>>)
         IN discoverAppDataPaths(Tail(order), h, (Head(order) :> path) @@ paths)

\* number of calls made on the same file
MaxRuns == 2

\* an engine from NewEngine, no call made: a run calls CreateBackup under
\* any of the options, or processJSONFile on any of the documents, or
\* processSQLiteFile on any of the databases
UnitAspects ==
    {"backup", "json", "sidecar", "sqlite", "connect", "clear", "expand",
     "discover"}

UnitInit ==
    /\ aspect \in UnitAspects
    /\ config \in IF aspect = "backup" THEN Configs ELSE {DefaultConfig}
    /\ dryRun = FALSE
    /\ appDataPaths = IF aspect = "discover" THEN NoPaths
                      ELSE [a \in Apps |-> AppPath]
    /\ inside = {}
    /\ dirPaths = <<>>
    /\ backups = InitialBackups
    /\ backlog = 0
    /\ progressChan = <<>>
    /\ appName = "cursor"
    /\ pc = "idle"
    /\ ret = "none"
    /\ files = BaselineFiles
    /\ dirs = BaselineDirs
    /\ foundFiles = <<>>
    /\ fileIndex = 0
    /\ allFoundDirs = 0
    /\ stats = <<>>
    /\ foundDirs = <<>>
    /\ dirIndex = 0
    /\ i = 0
    /\ now = 0
    /\ faults = 0
    /\ running = FALSE
    /\ phases = <<>>
    /\ ops = <<>>
    /\ created = <<>>
    /\ emitted = <<>>
    /\ received = <<>>
    /\ recvCount = 0
    /\ GuiAtRest
    /\ call = NoCall
    /\ doc \in IF aspect = "json" THEN Docs \cup ArrayDocs
              ELSE IF aspect = "sidecar" THEN SidecarDocs ELSE {NoDoc}
    /\ sidecars \in IF aspect = "sidecar" THEN Siblings ELSE {NoSidecars}
    /\ db \in IF aspect = "sqlite" THEN Dbs
             ELSE IF aspect = "connect" THEN ConnectDbs ELSE {EmptyDb}
    /\ fsys \in IF aspect = "clear"
                 THEN { [entries |-> t, outside |-> Intact] : t \in Trees }
                 ELSE {NoDir}
    /\ host \in IF aspect = "expand" THEN ExpandHosts
                 ELSE IF aspect = "discover" THEN DiscoverHosts
                 ELSE {NoHost}

\* everything a single method call leaves alone
pathsFrame == <<aspect, config, dryRun, inside, dirPaths, backlog, progressChan,
                appName, pc, ret, files, dirs, foundFiles, fileIndex,
                allFoundDirs, stats, foundDirs, dirIndex, i, now, running, phases, ops,
                created, emitted, received, recvCount, guiVars>>
unitFrame == <<appDataPaths, pathsFrame>>

\* one call e.CreateBackup(sourcePath, backupName)
CreateBackupCall ==
    /\ aspect = "backup"
    /\ \E src \in PresentSources \cup MissingSources,
       label \in {"telemetry", "cache"} :
      \E o \in IF src \in MissingSources THEN {"missing"} ELSE BackupOutcomes :
        /\ backups' = CreateBackup(backups, src, src.t = "dir", label,
                                   "item", now, o)
        /\ call' = [fn |-> "CreateBackup", src |-> src,
                    exists |-> src \in PresentSources,
                    out |-> CreateBackupReturn(label, "item", now, o),
                    before |-> backups]
        /\ UNCHANGED <<unitFrame, faults, doc, db, fsys, host, sidecars>>

\* calls of processJSONFile made so far
Runs == IF call.fn \in {"processJSONFile", "processSQLiteFile",
                        "cleanSQLiteDatabaseAdvanced", "clearDirectoryContents",
                        "cleanCache"}
          THEN call.run ELSE 0

\* one call e.processJSONFile(jsonPath, telemetryKeys, sessionKeys)
processJSONFileCall ==
    /\ aspect \in {"json", "sidecar"}
    /\ Runs < MaxRuns
    /\ \E io \in IOs :
         LET r == processJSONFile(doc, sidecars, Runs + 1, io)
         IN /\ faults + Failures(io) <= FaultBudget
            /\ faults' = faults + Failures(io)
            \* an operation that is not reached does not fail
            /\ r.failedAt = "read" => io.write
            /\ r.failedAt \notin {"none", "rename"} => io.rename
            /\ (\/ r.failedAt \notin {"write", "rename"}
                \/ io.bak = "none" /\ sidecars.bak = NoDoc)
                 => io.restore
            /\ doc' = r.doc
            /\ sidecars' = [bak |-> r.bak, tmp |-> r.tmp]
            /\ call' = [fn |-> "processJSONFile", run |-> Runs + 1,
                        orig |-> IF Runs = 0 THEN doc ELSE call.orig,
                        before |-> doc, side |-> sidecars,
                        modified |-> r.modified,
                        updatedKeys |-> r.updatedKeys,
                        deletedKeys |-> r.deletedKeys,
                        success |-> r.success, failedAt |-> r.failedAt,
                        bak |-> r.bak, tmp |-> r.tmp,
                        clean |-> /\ Runs = 0 \/ call.clean
                                  /\ io = NoFailure /\ doc.t = "obj"]
    /\ UNCHANGED <<unitFrame, backups, db, fsys, host>>

\* the UPDATE and DELETE statements processSQLiteFile executes on d
Statements(d) ==
    { t.name : t \in findRelevantTables(d) } \X (TelemetryKeys \cup SessionKeys)

\* one call e.processSQLiteFile(dbPath, telemetryKeys, sessionKeys); any of
\* its statements and its commit may fail
processSQLiteFileCall ==
    /\ aspect \in {"sqlite", "connect"}
    /\ Runs < MaxRuns
    /\ \E failed \in SUBSET Statements(db), commits \in BOOLEAN,
          works \in IF aspect = "connect" THEN Connections ELSE {AllConnect} :
         LET body == processSQLiteFile(db, Runs + 1, failed, commits)
             c == tryConnections(works, 1, body.success)
             r == IF c.exhausted THEN allConnectionsFailed(body, db)
                  ELSE body
             cost == Cardinality(failed) + Cost(~commits)
         IN /\ faults + cost <= FaultBudget
            /\ faults' = faults + cost
            \* a statement or a commit that is not reached does not fail
            /\ findRelevantTables(db) = {} => commits
            /\ c.ran = <<>> => failed = {} /\ commits
            /\ db' = r.db
            /\ call' = [fn |-> "processSQLiteFile", run |-> Runs + 1,
                        orig |-> IF Runs = 0 THEN db ELSE call.orig,
                        before |-> db, failed |-> failed,
                        commits |-> commits,
                        modified |-> r.modified,
                        tried |-> c.tried, ran |-> c.ran,
                        updatedKeys |-> r.updatedKeys,
                        deletedKeys |-> r.deletedKeys,
                        success |-> r.success, idents |-> r.idents]
    /\ UNCHANGED <<unitFrame, backups, doc, fsys, host, sidecars>>

\* one call e.cleanSQLiteDatabaseAdvanced(dbPath, keywords); the statements
\* of a table and the commit may fail
cleanSQLiteDatabaseAdvancedCall ==
    /\ aspect \in {"sqlite", "connect"}
    /\ Runs < MaxRuns
    /\ \E failed \in SUBSET { n \in DOMAIN db : isValidTableName(n) },
          commits \in BOOLEAN,
          works \in IF aspect = "connect" THEN Connections ELSE {AllConnect} :
         LET body == cleanSQLiteDatabaseAdvanced(db, failed, commits)
             c == tryConnections(works, 1, body.success)
             r == IF c.exhausted THEN allConnectionsFailed(body, db)
                  ELSE body
             cost == Cardinality(failed) + Cost(~commits)
         IN /\ faults + cost <= FaultBudget
            /\ faults' = faults + cost
            /\ DOMAIN db = {} => commits
            /\ c.ran = <<>> => failed = {} /\ commits
            /\ db' = r.db
            /\ call' = [fn |-> "cleanSQLiteDatabaseAdvanced", run |-> Runs + 1,
                        orig |-> IF Runs = 0 THEN db ELSE call.orig,
                        before |-> db, failed |-> failed,
                        commits |-> commits,
                        modified |-> r.modified,
                        tried |-> c.tried, ran |-> c.ran,
                        cleanedRecords |-> r.cleanedRecords,
                        success |-> r.success, idents |-> r.idents]
    /\ UNCHANGED <<unitFrame, backups, doc, fsys, host, sidecars>>

\* one call e.clearDirectoryContents(directory): os.ReadDir of the
\* directory, entry.Info() and the removal of an entry may fail
clearDirectoryContentsCall ==
    /\ aspect = "clear"
    /\ Runs < MaxRuns
    /\ \E readErr \in BOOLEAN, noInfo \in SUBSET Names(fsys.entries),
          stuck \in SUBSET Names(fsys.entries) :
         LET r == clearDirectoryContents(fsys.entries, noInfo, stuck)
             cost == Cost(readErr) + Cardinality(noInfo) + Cardinality(stuck)
         IN /\ faults + cost <= FaultBudget
            /\ faults' = faults + cost
            /\ readErr => noInfo = {} /\ stuck = {}
            /\ fsys' = IF readErr THEN fsys
                       ELSE [entries |-> r.left,
                             outside |-> [x \in DOMAIN fsys.outside |->
                                            IF x \in r.emptied THEN "emptied"
                                            ELSE fsys.outside[x]]]
            /\ call' = [fn |-> "clearDirectoryContents", run |-> Runs + 1,
                        before |-> fsys, err |-> readErr, stuck |-> stuck,
                        removed |-> IF readErr THEN 0
                                    ELSE r.removedFiles + r.removedDirs]
    /\ UNCHANGED <<unitFrame, backups, doc, db, host, sidecars>>

\* cleanCache as a whole over a root whose only cache directory is fsys:
\* the size measured by the search loop, the backup, the clearing pass, the
\* size check and the second pass, and the total of the summary
cleanCacheCall ==
    /\ aspect = "clear"
    /\ Runs < MaxRuns
    /\ \E stuck \in SUBSET Names(fsys.entries) :
         LET size == GetDirectorySize(fsys.entries)
             first == clearDirectoryContents(fsys.entries, {}, stuck)
             sizeAfter == GetDirectorySize(first.left)
             second == clearDirectoryContents(first.left, {}, {})
             last == IF sizeAfter > 0 THEN second ELSE first
             emptied == first.emptied \cup
                        (IF sizeAfter > 0 THEN second.emptied ELSE {})
         IN /\ faults + Cardinality(stuck) <= FaultBudget
            /\ faults' = faults + Cardinality(stuck)
            /\ backups' = CreateBackup(backups, DirSrc(1, 1), TRUE, "cache",
                                       CacheDirNames[1], now, "ok")
            /\ fsys' = [entries |-> last.left,
                        outside |-> [x \in DOMAIN fsys.outside |->
                                       IF x \in emptied THEN "emptied"
                                       ELSE fsys.outside[x]]]
            /\ call' = [fn |-> "cleanCache", run |-> Runs + 1,
                        before |-> fsys, err |-> FALSE, stuck |-> stuck,
                        passes |-> IF sizeAfter > 0 THEN 2 ELSE 1,
                        removed |-> first.removedFiles + first.removedDirs
                                    + (IF sizeAfter > 0
                                         THEN second.removedFiles + second.removedDirs
                                         ELSE 0),
                        freed |-> size]
    /\ UNCHANGED <<unitFrame, doc, db, host, sidecars>>

\* one call e.expandPathTemplate(template)
expandPathTemplateCall ==
    /\ aspect = "expand"
    /\ call = NoCall
    /\ \E template \in Templates :
         call' = [fn |-> "expandPathTemplate", template |-> template,
                  out |-> expandPathTemplate(template, host)]
    /\ UNCHANGED <<unitFrame, faults, backups, doc, db, fsys, host, sidecars>>

\* the orders in which a range over config.Applications may yield the profiles
Orders ==
    { q \in [1..Cardinality(DOMAIN host.applications) -> DOMAIN host.applications] :
        \A a, b \in DOMAIN q : a # b => q[a] # q[b] }

\* NewEngine calls e.discoverAppDataPaths()
discoverAppDataPathsCall ==
    /\ aspect = "discover"
    /\ call = NoCall
    /\ \E order \in Orders :
         /\ appDataPaths' = discoverAppDataPaths(order, host, NoPaths)
         /\ call' = [fn |-> "discoverAppDataPaths", order |-> order,
                     discovered |-> appDataPaths', writes |-> 0]
    /\ UNCHANGED <<pathsFrame, faults, backups, doc, db, fsys, host, sidecars>>

\* a caller's e.GetAppDataPaths(): the map of the engine itself is returned
GetAppDataPathsCall ==
    /\ aspect = "discover"
    /\ call.fn \in {"discoverAppDataPaths", "GetAppDataPaths"}
    /\ call' = [fn |-> "GetAppDataPaths", order |-> call.order,
                discovered |-> call.discovered, writes |-> call.writes,
                out |-> appDataPaths]
    /\ UNCHANGED <<unitFrame, faults, backups, doc, db, fsys, host, sidecars>>

\* writes a caller may make to a map it was given
MaxWrites == 1

\* the caller assigns to, or deletes, an entry of the map it was given; the
\* map is the one e.appDataPaths refers to
CallerWrite ==
    /\ aspect = "discover"
    /\ call.fn = "GetAppDataPaths"
    /\ call.writes < MaxWrites
    /\ \E a \in DOMAIN appDataPaths, del \in BOOLEAN :
         appDataPaths' =
           IF del THEN [b \in DOMAIN appDataPaths \ {a} |-> appDataPaths[b]]
           ELSE [appDataPaths EXCEPT ![a] = <<Slash>>]
    /\ call' = [call EXCEPT !.writes = @ + 1]
    /\ UNCHANGED <<pathsFrame, faults, backups, doc, db, fsys, host, sidecars>>

UnitNext ==
    \/ expandPathTemplateCall
    \/ discoverAppDataPathsCall
    \/ GetAppDataPathsCall
    \/ CallerWrite
    \/ cleanCacheCall
    \/ CreateBackupCall
    \/ processJSONFileCall
    \/ processSQLiteFileCall
    \/ cleanSQLiteDatabaseAdvancedCall
    \/ clearDirectoryContentsCall

UnitSpec == UnitInit /\ [][UnitNext]_vars

\* C14: with backups disabled CreateBackup returns no path and no error and
\* leaves the backup root as it was, whether or not the source exists; with
\* backups enabled and a source that does not exist it returns an error and
\* creates no entry under the backup root.
C14_BackupDisabledOrMissing ==
    call.fn = "CreateBackup" =>
        /\ ~config.backupEnabled =>
              /\ call.out = [path |-> <<>>, err |-> "nil"]
              /\ backups = call.before
        /\ (config.backupEnabled /\ ~call.exists) =>
              /\ call.out.err # "nil"
              /\ call.out.path = <<>>
              /\ backups = call.before

\* CreateBackup was called with backups enabled on a path that does not exist
C14_Witness ==
    /\ call.fn = "CreateBackup"
    /\ config.backupEnabled
    /\ ~call.exists
    /\ call.out.err = "source path does not exist"

\* every telemetry key of the object o, reached through objects and arrays of
\* objects, holds in n an identifier generated by run g and other than the
\* one it held; with strings set, only the keys that held a string
RECURSIVE Replaced(_, _, _, _)
\* processJSONFile was called on a file holding an object, and every file
\* operation of the calls so far has worked
Undisturbed == call.fn = "processJSONFile" /\ call.clean

Replaced(o, n, g, strings) ==
    /\ \A k \in DOMAIN o \cap TelemetryKeys :
          (strings => o[k].t = "str") =>
              /\ k \in DOMAIN n
              /\ n[k].t = "str"
              /\ n[k].kind \in {"machine", "session"}
              /\ n[k].gen = g
              /\ n[k] # o[k]
    /\ \A k \in DOMAIN o \cap DOMAIN n :
          /\ o[k].t = "obj" =>
                n[k].t = "obj" /\ Replaced(o[k].m, n[k].m, g, strings)
          /\ o[k].t = "arr" =>
                /\ n[k].t = "arr"
                /\ DOMAIN n[k].e = DOMAIN o[k].e
                /\ \A j \in DOMAIN o[k].e :
                      o[k].e[j].t = "obj" =>
                          /\ n[k].e[j].t = "obj"
                          /\ Replaced(o[k].e[j].m, n[k].e[j].m, g, strings)

RECURSIVE HoldsSessionKey(_, _)
HoldsSessionKey(v, deep) ==
    CASE v.t = "obj" ->
           \/ DOMAIN v.m \cap SessionKeys # {}
           \/ \E k \in DOMAIN v.m : HoldsSessionKey(v.m[k], deep)
      [] v.t = "arr" ->
           \E j \in DOMAIN v.e :
               (deep \/ v.e[j].t = "obj") /\ HoldsSessionKey(v.e[j], deep)
      [] OTHER -> FALSE

\* the value v holds a string at a telemetry key, reached through objects
\* and arrays of objects
RECURSIVE HoldsTelemetryString(_)
HoldsTelemetryString(v) ==
    CASE v.t = "obj" ->
           \/ \E k \in DOMAIN v.m \cap TelemetryKeys : v.m[k].t = "str"
           \/ \E k \in DOMAIN v.m : HoldsTelemetryString(v.m[k])
      [] v.t = "arr" ->
           \E j \in DOMAIN v.e :
               v.e[j].t = "obj" /\ HoldsTelemetryString(v.e[j])
      [] OTHER -> FALSE

Fresh(v, g) == v.t = "str" /\ v.kind \in {"machine", "session"} /\ v.gen = g

\* C17 as stated: after a successful processSQLiteFile, in every table with
\* a discoverable key/value column pair every row of a telemetry key holds
\* a newly generated identifier and no row of a session key remains.
C17_EveryPairTableMutated ==
    (call.fn = "processSQLiteFile" /\ call.success) =>
        \A n \in DOMAIN db :
            analyzeTableStructure(n, db[n].cols).found =>
                /\ \A k \in DOMAIN call.before[n].rows \cap TelemetryKeys :
                      k \in DOMAIN db[n].rows /\ Fresh(db[n].rows[k], call.run)
                /\ DOMAIN db[n].rows \cap SessionKeys = {}

\* the tables processSQLiteFile worked on in the last call
Relevant == { t.name : t \in findRelevantTables(call.before) }

C19_OnlySafeIdentifiersInSQL ==
    call.fn \in {"processSQLiteFile", "cleanSQLiteDatabaseAdvanced"} =>
        /\ call.idents \subseteq SafeIdentifiers
        /\ \A n \in DOMAIN db : ~isValidTableName(n) => db[n] = call.before[n]

\* the part of C19 that the keyword sanitization satisfies
SanitizerUsesSafeIdentifiers ==
    call.fn = "cleanSQLiteDatabaseAdvanced" =>
        /\ call.idents \subseteq SafeIdentifiers
        /\ \A n \in DOMAIN db : ~isValidTableName(n) => db[n] = call.before[n]

\* a cache directory that lies inside another matched cache directory
Nested(k, j) == \E p \in inside : p[1] = DirSrc(k, j)

\* a call that ran all its phases for real and met no I/O failure
CleanRun == pc = "done" /\ ret = "nil" /\ ~dryRun /\ faults = 0

\* C20 as stated: after cleanCache (no dry run, no failure) every directory
\* that matched a cache name still exists and is empty, a matched directory
\* inside another matched directory included.
C20_EveryMatchedDirEmpty ==
    CleanRun => \A k \in DOMAIN dirs : \A j \in DOMAIN dirs[k] :
                    dirs[k][j] = "empty"

\* C20, amended: after cleanCache (no dry run, no failure) every matched
\* directory that does not lie inside another matched directory still exists
\* and is empty, and a matched directory inside another matched directory no
\* longer exists.
C20_OuterEmptyInnerGone ==
    CleanRun => \A k \in DOMAIN dirs : \A j \in DOMAIN dirs[k] :
                    dirs[k][j] = IF Nested(k, j) THEN "gone" ELSE "empty"

\* a finished run over a tree in which an "IndexedDB" directory lies inside
\* the "Local Storage" directory: cleared first, then removed with the
\* contents of the outer directory
C20_Witness ==
    /\ CleanRun
    /\ inside = {<<DirSrc(1, 2), DirSrc(2, 1)>>}
    /\ dirs = <<<<"empty", "gone">>, <<"empty">>>>
    /\ \E x \in DOMAIN ops : ops[x].op = "mutate" /\ ops[x].src = DirSrc(1, 2)

\* C21: clearing a directory removes only entries of its own tree: a link
\* found in it is removed as a link, and what it points to outside the
\* directory is neither deleted nor modified.
C21_LinksRemovedNotFollowed ==
    call.fn = "clearDirectoryContents" =>
        /\ fsys.outside = Intact
        /\ ~call.err =>
              \A n \in DOMAIN call.before.entries \ call.stuck :
                  n \notin DOMAIN fsys.entries

\* a directory holding a link to an outside directory, and a sub-directory
\* holding another, was cleared completely
C21_Witness ==
    /\ call.fn = "clearDirectoryContents" /\ ~call.err
    /\ {"ld", "sub"} \subseteq DOMAIN call.before.entries
    /\ fsys.entries = NoEntries
    /\ fsys.outside = Intact

\* C22: clearDirectoryContents on a directory that is already empty removes
\* nothing, and a cleanCache over a cache directory that is already empty
\* reports zero bytes freed.
C22_EmptyDirectoryNoOp ==
    (call.fn \in {"clearDirectoryContents", "cleanCache"} /\ ~call.err
       /\ call.before.entries = NoEntries) =>
        /\ call.removed = 0
        /\ fsys.entries = NoEntries
        /\ call.fn = "cleanCache" => call.freed = 0

\* a second call, on the directory an earlier call has emptied
C22_Witness ==
    /\ call.fn = "cleanCache" /\ call.run = 2
    /\ call.before.entries = NoEntries
    /\ call.freed = 0 /\ call.removed = 0

\* the expansions of the templates of a profile for the OS of the host
Expansions(app) ==
    LET appConfig == host.applications[app]
        paths == IF host.os \in DOMAIN appConfig THEN appConfig[host.os] ELSE <<>>
    IN [k \in DOMAIN paths |-> expandPathTemplate(paths[k], host)]

\* C23: discovery records, for every profile, the expansion of the first
\* template of the current OS that exists on disk, and the empty string when
\* none exists or the profile has no templates for the OS, whatever the order
\* in which the profiles were taken.
C23_FirstExistingTemplate ==
    call.fn = "discoverAppDataPaths" =>
        /\ DOMAIN appDataPaths = DOMAIN host.applications
        /\ \A app \in DOMAIN appDataPaths :
              LET e == Expansions(app)
                  hits == { k \in DOMAIN e : e[k] \in host.disk }
              IN IF hits = {} THEN appDataPaths[app] = <<>>
                 ELSE \E k \in hits : /\ appDataPaths[app] = e[k]
                                       /\ \A j \in hits : k <= j

\* a profile whose second template is the first that exists, and whose two
\* expansions differ, discovered after the other profile
C23_Witness ==
    /\ call.fn = "discoverAppDataPaths"
    /\ call.order = <<"windsurf", "cursor">>
    /\ LET e == Expansions("cursor")
       IN /\ Len(e) = 2 /\ e[1] \notin host.disk /\ e[2] \in host.disk
          /\ appDataPaths["cursor"] = e[2]
    /\ appDataPaths["windsurf"] = <<>>

\* C24: what a caller does to a map it got from GetAppDataPaths changes
\* neither what GetAppDataPaths returns later nor the path CleanApplication
\* looks up: e.appDataPaths stays what discovery recorded.
C24_ReturnedMapIsACopy ==
    call.fn = "GetAppDataPaths" =>
        /\ appDataPaths = call.discovered
        /\ call.out = call.discovered

\* C25: a placeholder whose variable is unset is replaced by the empty
\* string: no placeholder of an unset variable is left in the result.
C25_UnsetPlaceholderRemoved ==
    call.fn = "expandPathTemplate" =>
        \A k \in DOMAIN call.out :
            ~(call.out[k].t \in {"dollar", "brace", "percent"}
              /\ host.vars[call.out[k].n] = "")

\* the items whose loop body has run in a phase, in the order of the trace
Bodies(phase) ==
    LET First(j) == /\ ops[j].phase = phase
                    /\ (j = 1 \/ ops[j - 1].phase # phase
                               \/ ops[j - 1].src # ops[j].src)
        at == Filter(Len(ops), First, 1)
    IN [n \in DOMAIN at |-> ops[at[n]].src]

\* the files a loop has gone past
Passed == [n \in 1..fileIndex |-> FileSrc(foundFiles[n])]

\* every directory the search loop of cleanCache finds in the tree ds
MatchesOf(ds) ==
    UNION { { DirSrc(k, j) : j \in DOMAIN ds[k] } :
            k \in DOMAIN ds \cap 1..config.cacheDirectories }

Range(q) == { q[n] : n \in DOMAIN q }

BodyOf(j) ==
    { m \in j..Len(ops) :
        \A x \in j..m : ops[x].phase = ops[j].phase /\ ops[x].src = ops[j].src
                         /\ (x > j => ops[x].op # "backup") }

\* the clearing passes among the positions S, and the sizes measured there
PassesIn(S) == { m \in S : ops[m].op = "mutate" }
Measured(S) == { ops[m].size : m \in { x \in S : ops[x].op = "measured" } }

\* C27 as stated: one directory is cleared at least once and at most twice
\* in a run, a second time only when the size measured after the first pass
\* was not zero, also when it matches more than one configured name.  Here
\* for a run that is not a dry run and meets no I/O failure.
C27_AtMostTwoPassesPerDirectory ==
    (pc = "complete" /\ "cleanCache" \in Range(phases) /\ ~dryRun /\ faults = 0) =>
        \A src \in MatchesOf(dirs) :
            LET all == { m \in DOMAIN ops :
                           ops[m].phase = "cache" /\ Same(ops[m].src, src) }
            IN /\ Cardinality(PassesIn(all)) \in 1..2
               /\ Cardinality(PassesIn(all)) = 2 => Measured(all) # {0}

\* C27: for each match of a configured name that exists at its turn, the
\* body makes no pass in a dry run, and otherwise one pass, a measurement
\* of the size, and a second pass exactly when that size is not zero.
C27_AtMostTwoPassesPerMatch ==
    \A j \in DOMAIN ops :
        (ops[j].phase = "cache" /\ ops[j].op = "backup") =>
            LET body == BodyOf(j)
                passes == Cardinality(PassesIn(body))
            IN IF dryRun THEN passes = 0
               ELSE /\ passes \in 1..2
                    /\ Cardinality(Measured(body)) = 1
                    /\ passes = 2 <=> Measured(body) # {0}
                    /\ \A x \in body :
                          ops[x].op = "measured" =>
                              Cardinality({ m \in PassesIn(body) : m < x }) = 1

\* a directory whose first pass failed, cleared by the second pass
C27_Witness ==
    /\ pc = "complete" /\ ~dryRun
    /\ \E j \in DOMAIN ops :
          /\ ops[j].phase = "cache" /\ ops[j].op = "backup"
          /\ Cardinality(PassesIn(BodyOf(j))) = 2
          /\ Measured(BodyOf(j)) = {1}
    /\ \A k \in DOMAIN dirs : \A n \in DOMAIN dirs[k] : dirs[k][n] = "empty"

\* the total the summary of cleanCache gives as freed
TotalSizeFreed ==
    Sum([k \in DOMAIN stats |->
           IF stats[k].DirCount > 0 THEN stats[k].TotalSize ELSE 0], DOMAIN stats)

\* the directories of the tree, each once, and what they hold
Paths == { src \in MatchesOf(dirs) :
             \A other \in MatchesOf(dirs) :
                 Same(src, other) => (other.a > src.a \/ other = src) }
Occupied == Cardinality({ src \in Paths : dirs[src.a][src.b] = "full" })

\* C28: the total reported as freed is what the run removed: every matched
\* directory holds one unit when the run starts, so what was removed is the
\* number of directories less what they still hold.
C28_FreedIsWhatWasRemoved ==
    (pc = "complete" /\ "cleanCache" \in Range(phases) /\ stats # <<>>) =>
        TotalSizeFreed = Cardinality(Paths) - Occupied

\* C29: when the write of the .tmp file or the rename fails, the file holds
\* its complete content of before the call on return, no .tmp is left, and
\* the call reports failure with zero updated and zero deleted keys.
C29_FailedRewriteLeavesFileIntact ==
    (call.fn = "processJSONFile" /\ call.failedAt \in {"write", "rename"}) =>
        /\ doc = call.before
        /\ call.tmp = NoDoc
        /\ ~call.success /\ ~call.modified
        /\ call.updatedKeys = 0 /\ call.deletedKeys = 0

\* C30: processJSONFile on a file that can be read and whose top level is an
\* array leaves the file as it is and returns success with zero updated and
\* zero deleted keys, whatever the objects in the array hold.
C30_TopLevelArrayUntouched ==
    (call.fn = "processJSONFile" /\ call.before.t = "arr"
       /\ call.failedAt # "read") =>
        /\ doc = call.before
        /\ call.success /\ ~call.modified
        /\ call.updatedKeys = 0 /\ call.deletedKeys = 0
        /\ call.tmp = call.side.tmp

\* a call on an array whose object holds a string at a telemetry key and a
\* session key
C30_Witness ==
    /\ call.fn = "processJSONFile" /\ call.success
    /\ call.before = JArr(<<JObj(("machineId" :> OrigId) @@ ("authToken" :> OrigId))>>)
    /\ doc = call.before

\* C31: processJSONFile changes no file but its target: when it has returned,
\* the files <target>.bak and <target>.tmp are as they were before the call,
\* a sibling that existed with its content and none where there was none.
C31_SidecarsAsBeforeTheCall ==
    call.fn = "processJSONFile" => sidecars = call.side

\* C32: when the database of a processSQLiteFile call holds a table with a
\* name of the priority list, every table found relevant has a name of that
\* list: the other tables are inspected only when no priority name exists.
C32_PriorityTablesShadowTheRest ==
    (call.fn = "processSQLiteFile"
       /\ DOMAIN call.before \cap PriorityTables # {}) =>
        /\ Analysed(call.before) \subseteq PriorityTables
        /\ \A t \in findRelevantTables(call.before) : t.name \in PriorityTables

\* the two methods that rewrite a database file, and the number of rows a
\* call reports as affected
OnDatabase == call.fn \in {"processSQLiteFile", "cleanSQLiteDatabaseAdvanced"}
Affected ==
    IF call.fn = "processSQLiteFile" THEN call.updatedKeys + call.deletedKeys
    ELSE call.cleanedRecords

\* a file in which nothing matches: processSQLiteFile finds no relevant
\* table or no row of a configured key, cleanSQLiteDatabaseAdvanced finds
\* no row in a table named like a cache and no row holding a keyword
NothingMatches(d) ==
    IF call.fn = "processSQLiteFile"
      THEN \A t \in findRelevantTables(d) :
              DOMAIN d[t.name].rows \cap (TelemetryKeys \cup SessionKeys) = {}
      ELSE \A n \in DOMAIN d :
              /\ n \in CachePatternNamed => DOMAIN d[n].rows = {}
              /\ DOMAIN d[n].rows \cap KeywordNamed = {}

\* C33: when the commit of the transaction fails, the database holds what it
\* held before the call and the file is reported as failed with zero
\* affected rows; when the file could be opened, nothing in it matches and
\* the commit, if one is reached, succeeds, the file is reported as success
\* with zero affected rows and is unchanged.
C33_FailedCommitKeepsContent ==
    OnDatabase =>
        /\ ~call.commits =>
              db = call.before /\ ~call.success /\ ~call.modified /\ Affected = 0
        /\ (call.ran # <<>> /\ call.commits /\ NothingMatches(call.before)) =>
              db = call.before /\ call.success /\ ~call.modified /\ Affected = 0

\* a cleanSQLiteDatabaseAdvanced call whose statements all ran and matched
\* rows, and whose commit failed
C33_Witness ==
    /\ OnDatabase /\ ~call.commits /\ call.failed = {}
    /\ ~NothingMatches(call.before)
    /\ call.fn = "cleanSQLiteDatabaseAdvanced"

\* C34: identifier mutation of one database file is all or nothing: when
\* processSQLiteFile has returned, either the file is unchanged, or in every
\* relevant table every row of a configured telemetry key holds an
\* identifier of this call and no row of a configured session key remains.
C34_MutationAllOrNothing ==
    call.fn = "processSQLiteFile" =>
        \/ db = call.before
        \/ \A n \in Relevant :
              /\ \A k \in DOMAIN call.before[n].rows \cap TelemetryKeys :
                    k \in DOMAIN db[n].rows /\ Fresh(db[n].rows[k], call.run)
              /\ DOMAIN db[n].rows \cap SessionKeys = {}

\* the <<key, value>> pairs held anywhere in a JSON value, and in the rows
\* of a database
RECURSIVE Held(_)
Held(v) ==
    CASE v.t = "obj" ->
           { <<k, v.m[k]>> : k \in DOMAIN v.m }
             \cup UNION { Held(v.m[k]) : k \in DOMAIN v.m }
      [] v.t = "arr" -> UNION { Held(v.e[j]) : j \in DOMAIN v.e }
      [] OTHER -> {}
HeldRows(d) ==
    UNION { { <<k, d[n].rows[k]>> : k \in DOMAIN d[n].rows } : n \in DOMAIN d }

\* what the last call on a file wrote at telemetry keys
Written ==
    { p \in IF call.fn = "processJSONFile" THEN Held(doc) ELSE HeldRows(db) :
        p[1] \in TelemetryKeys /\ Fresh(p[2], call.run) }

\* C35: within one processed JSON or database file, every telemetry key
\* whose name does not contain "session" received the one machine identifier
\* of the call and every telemetry key whose name contains "session" the one
\* session identifier of the call, and the two identifiers differ.
C35_OneIdentifierOfEachKindPerFile ==
    call.fn \in {"processJSONFile", "processSQLiteFile"} =>
        /\ \A p \in Written :
              p[2] = IF p[1] \in SessionNamed THEN JStr("session", call.run)
                     ELSE JStr("machine", call.run)
        /\ JStr("session", call.run) # JStr("machine", call.run)

\* a file in which one call wrote the machine identifier at two places and
\* the session identifier at one
C35_Witness ==
    /\ call.fn = "processJSONFile"
    /\ \E p \in Written : p[1] = "sessionId"
    /\ Cardinality({ p \in Written : p[1] = "machineId" }) = 1
    /\ doc.t = "obj" /\ "machineId" \in DOMAIN doc.m
    /\ "data" \in DOMAIN doc.m /\ Held(doc.m["data"]) \cap Written # {}

\* C36: for one database file the connection strings are tried in the order
\* WAL with timeout, read-write, plain; the transaction is executed under at
\* most one of them, which is the last one tried, so no statement is
\* executed twice in one call; and a call that ran out of connection
\* strings reports the file as failed and leaves it as it was.
C36_OneStrategyExecutes ==
    OnDatabase =>
        /\ call.tried = SubSeq(<<"wal-timeout", "rw", "plain">>, 1, Len(call.tried))
        /\ Len(call.ran) <= 1
        /\ call.ran # <<>> => call.ran[1] = call.tried[Len(call.tried)]
        /\ call.ran = <<>> =>
              /\ Len(call.tried) = 3
              /\ ~call.success /\ Affected = 0 /\ db = call.before

\* the first two connection strings failed and the transaction under the
\* third rewrote the file
C36_Witness ==
    /\ call.fn = "processSQLiteFile" /\ call.modified
    /\ Len(call.tried) = 3 /\ call.ran = <<"plain">>

\* a call for which no connection string worked
C36_Exhausted == OnDatabase /\ call.ran = <<>>

\* C37: the goroutines started by the k-th performCleanup call use the
\* engine constructed in that call: CleanApplication runs on it and
\* monitorProgress reads its channel, also when performCleanup is called
\* again before they have started.
C37_GoroutinesUseTheirEngine ==
    \A k \in DOMAIN selectedApps :
        /\ cleaners[k].st \in {"running", "returned"} => cleaners[k].engine = k
        /\ monitors[k].st = "reading" => monitors[k].engine = k

\* every cleanup has returned and every monitor waits at an empty channel
AllReturned == \A k \in DOMAIN selectedApps : cleaners[k].st = "returned"
Consumed ==
    \A k \in DOMAIN selectedApps :
        monitors[k].st = "reading" /\ chans[monitors[k].engine] = <<>>

\* the number of completion hooks started for the application a
HookStarts(a) == Cardinality({ j \in DOMAIN hooks : hooks[j] = a })

\* C38: showProjectInfoAfterCompletion is started at most once for an
\* application, and exactly once for each application when all cleanups
\* have returned and the monitors have taken every update they can take.
C38_HookOncePerApplication ==
    /\ \A a \in GuiApps : HookStarts(a) <= 1
    /\ (AllReturned /\ Consumed) =>
          \A k \in DOMAIN selectedApps : HookStarts(selectedApps[k]) = 1

\* C39: once the cleanups have returned and their updates are consumed,
\* every monitorProgress goroutine eventually terminates.
C39_MonitorsTerminate ==
    (AllReturned /\ Consumed) ~>
        (\A k \in DOMAIN selectedApps : monitors[k].st = "done")

\* the loop bodies in which a mutating call applies to the item
Mutable(phase, src) ==
    CASE phase = "telemetry" -> TelemetryHandler(files[src.a].base) # "skip"
      [] phase = "database"  -> TRUE
      [] OTHER               -> ~dryRun

\* number of events of one kind in the trace
CountOps(kind) == Cardinality({ j \in DOMAIN ops : ops[j].op = kind })

\* CreateBackup calls that returned an error
FailedBackups ==
    IF config.backupEnabled THEN CountOps("backup") - Len(created) ELSE 0

\* C13: after a CreateBackup call, failed or not, the mutation of the same
\* item is still attempted, and no item is counted as failed for a backup
\* failure: each item counted as failed had a failure of its own.
C13_BackupFailureNotFatal ==
    /\ \A j \in DOMAIN ops :
          (ops[j].op = "backup" /\ Mutable(ops[j].phase, ops[j].src)) =>
              \E k \in (j + 1)..Len(ops) :
                  /\ ops[k].op = "mutate"
                  /\ ops[k].phase = ops[j].phase
                  /\ ops[k].src = ops[j].src
    /\ CountOps("failed") + FailedBackups <= faults

\* a finished call in which a backup failed, the item was mutated all the
\* same and nothing was counted as failed
C13_Witness ==
    /\ pc = "done" /\ FailedBackups > 0
    /\ CountOps("failed") = 0
    /\ \E j \in DOMAIN files : files[j].ids = "new" /\ files[j].rows = "cleaned"

====
